---- MODULE Spec2Model ----
(***************************************************************************)
(* A model of the dbassistant query pipeline: the sanitizer of generated   *)
(* query text (query_engine.py), the persisted schema cache                *)
(* (schema_utils.py), the session configuration (db_utils.py,              *)
(* db_config.py, main_app.py) and the query executor (executor.py).        *)
(*                                                                         *)
(* Text is modelled as a sequence of characters; a character is a short    *)
(* string naming it ("BT" is the backtick, "NL" the line feed).            *)
(***************************************************************************)
EXTENDS Integers, Sequences, FiniteSets, TLC

VARIABLES
    cq_input,          \* the generated text handed to clean_query_output
    cq_outputs,        \* the results of the successive clean_query_output passes
    current_db_config, \* db_utils.current_db_config, the process-wide record
    session_state,     \* st.session_state of the user session
    last_connect,      \* history: the connect button whose handler last succeeded
    ex,                \* history: the last execute_sql_query call and what it did
    schema_file,       \* the contents of schema.json
    live_rev,          \* the revision of the live sources (tables, headers)
    sc_calls,          \* history: the last get_database_schema calls, oldest first
    rq,                \* history: the last run of the page and how far it got
    api,               \* history: the last call of a validator, endpoint or resolver
    race,              \* two get_database_schema calls in flight over one schema.json
    sessions           \* st.session_state of each user session of one process

cleanVars == <<cq_input, cq_outputs>>
sessionVars == <<current_db_config, session_state, last_connect>>
schemaVars == <<schema_file, live_rev, sc_calls>>
NoApiCall == [entry |-> "none"]
NoRace == [pc |-> <<"idle", "idle">>]
NoSessions == <<>>
NoRequest ==
    [stage |-> "idle", pressed |-> FALSE, escaped |-> "none", world |-> "none",
     schema_found |-> FALSE, generated |-> FALSE, asked |-> "none",
     gen |-> [escaped |-> "none", model_calls |-> 0, ret |-> <<>>, script |-> <<>>],
     opened |-> 0, closed |-> 0, reads |-> 0]
vars == <<cq_input, cq_outputs, current_db_config, session_state, last_connect, ex,
          schema_file, live_rev, sc_calls, rq, api, race, sessions>>

----------------------------------------------------------------------------
(* Bounds *)

MaxFrags == 3      \* fragments concatenated into one generated text
MaxPasses == 2     \* successive sanitization passes of one text
MaxQueryLen == 3   \* characters of a SQL artifact
MaxOps == 2        \* statements of a script artifact
MaxRev == 1        \* changes of the live sources' tables and headers
MaxTables == 2     \* tables of a database, hence positions where DESCRIBE can fail

----------------------------------------------------------------------------
(* Characters and text helpers (Python str semantics) *)

BT == "BT"
STAR == "STAR"
HASH == "HASH"
NL == "NL"
SP == "SP"

IsSpaceChar(c) == c \in {SP, NL}


StartsWith(s, p) == Len(s) >= Len(p) /\ SubSeq(s, 1, Len(p)) = p

\* str.replace(p, ""): leftmost, non-overlapping occurrences, one scan.
RECURSIVE StrRemove(_, _)
StrRemove(s, p) ==
    IF Len(s) < Len(p) THEN s
    ELSE IF StartsWith(s, p) THEN StrRemove(SubSeq(s, Len(p) + 1, Len(s)), p)
    ELSE <<Head(s)>> \o StrRemove(Tail(s), p)

RECURSIVE LStrip(_)
LStrip(s) == IF s # <<>> /\ IsSpaceChar(Head(s)) THEN LStrip(Tail(s)) ELSE s

RECURSIVE RStrip(_)
RStrip(s) ==
    IF s # <<>> /\ IsSpaceChar(s[Len(s)]) THEN RStrip(SubSeq(s, 1, Len(s) - 1)) ELSE s

\* str.strip()
StrStrip(s) == RStrip(LStrip(s))

\* str.split(sep) for a one-character separator: always at least one piece.
RECURSIVE StrSplit(_, _)
StrSplit(s, sep) ==
    IF \A i \in 1..Len(s) : s[i] # sep THEN <<s>>
    ELSE LET i == CHOOSE k \in 1..Len(s) : s[k] = sep /\ \A j \in 1..(k - 1) : s[j] # sep
         IN <<SubSeq(s, 1, i - 1)>> \o StrSplit(SubSeq(s, i + 1, Len(s)), sep)

\* sep.join(pieces) for a one-character separator
RECURSIVE StrJoin(_, _)
StrJoin(pieces, sep) ==
    IF pieces = <<>> THEN <<>>
    ELSE IF Len(pieces) = 1 THEN pieces[1]
    ELSE pieces[1] \o <<sep>> \o StrJoin(Tail(pieces), sep)

----------------------------------------------------------------------------
(* query_engine.py: clean_query_output *)

FenceSql == <<BT, BT, BT, "s", "q", "l">>
FencePython == <<BT, BT, BT, "p", "y", "t", "h", "o", "n">>
Fence == <<BT, BT, BT>>

\* line 18
RemoveCodeFences(q) == StrRemove(StrRemove(StrRemove(q, FenceSql), FencePython), Fence)

IsCommentLine(line) == StartsWith(StrStrip(line), <<HASH>>)

RECURSIVE NonCommentLines(_)
NonCommentLines(lines) ==
    IF lines = <<>> THEN <<>>
    ELSE (IF IsCommentLine(Head(lines)) THEN <<>> ELSE <<Head(lines)>>)
         \o NonCommentLines(Tail(lines))

\* line 20
RemoveCommentLines(q) == StrJoin(NonCommentLines(StrSplit(q, NL)), NL)

\* line 22
RemoveEmphasis(q) == StrRemove(StrRemove(StrRemove(q, <<STAR, STAR>>), <<STAR>>), <<BT>>)

clean_query_output(query) ==
    StrStrip(RemoveEmphasis(RemoveCommentLines(RemoveCodeFences(query))))

----------------------------------------------------------------------------
(* Python values: every value is a record with a kind *)

None == [kind |-> "None"]
PyStr(text) == [kind |-> "str", v |-> text]
PyInt(n) == [kind |-> "int", v |-> n]

\* bool(x) for the values the handlers test
Truthy(x) ==
    CASE x.kind = "None" -> FALSE
      [] x.kind = "str" -> x.v # <<>>
      [] x.kind = "list" -> x.items # <<>>
      [] OTHER -> TRUE

----------------------------------------------------------------------------
(* db_utils.py: the process-wide configuration and the resolver *)

SL == "/"
BSL == "BSL"

EmptyPath == <<>>

InitialConfig ==
    [type |-> "mysql",
     mysql |-> [host |-> <<>>, user |-> <<>>, password |-> <<>>, database |-> <<>>,
                port |-> 3306],
     excel |-> [file_path |-> EmptyPath]]

\* st.session_state.get("last_excel_update") of a session that has none
NoTime == -1

\* main_app.py lines 140-141 and 147-149 on the session's first script run.
\* mysql_table_counts is the set of (table, count) pairs; a session without
\* the key reads like one with the empty mapping (db_config.py lines 79-80).
InitialSession ==
    [db_connected |-> FALSE,
     db_config |-> "unset",
     selected_db_type |-> "mysql",
     mysql_connected |-> FALSE,
     excel_connected |-> FALSE,
     last_excel_update |-> NoTime,
     mysql_table_counts |-> {}]

\* st.session_state.db_config holds a reference to the module's record
get_db_config(cfg, ss) ==
    IF ss.db_connected /\ ss.db_config = "current_db_config" THEN cfg ELSE cfg

\* str.replace("\\", "/") on a path
RECURSIVE NormalizePath(_)
NormalizePath(path) ==
    IF path = <<>> THEN <<>>
    ELSE <<IF Head(path) = BSL THEN SL ELSE Head(path)>> \o NormalizePath(Tail(path))

\* The world outside the process at the time of one call: whether the
\* connectivity-check service answers, whether the MySQL server accepts the
\* configured parameters, and what is found at the configured Excel path.
FileStates == {"missing", "unreadable", "ok"}
Envs == [api : BOOLEAN, mysql : BOOLEAN, file : FileStates]

\* os.path.exists
PathExists(path, env) == path # EmptyPath /\ env.file # "missing"

\* get_db_connection takes no parameter: a call that passes one raises TypeError
get_db_connection(cfg, ss, env, nargs) ==
    IF nargs > 0 THEN [kind |-> "raise", exc |-> "TypeError"]
    ELSE LET db_config == get_db_config(cfg, ss)
             db_type == db_config.type
         IN CASE db_type = "mysql" ->
                   IF env.mysql
                   THEN [kind |-> "connection", params |-> db_config.mysql]
                   ELSE None
              [] db_type = "excel" ->
                   LET file_path == NormalizePath(db_config.excel.file_path)
                   IN IF PathExists(file_path, env)
                      THEN [kind |-> "path", v |-> file_path]
                      ELSE None
              [] OTHER -> None

----------------------------------------------------------------------------
(* api_server.py: POST /connect as seen by the session process *)

\* A parameter mapping is a function from the keys it has to their values;
\* a string is a sequence of tokens, the empty string is <<>>
Has(params, key) == key \in DOMAIN params
Present(params, key) == Has(params, key) /\ params[key] # <<>>

\* A field of the world a caller may have left out
Field(env, name, default) == IF name \in DOMAIN env THEN env[name] ELSE default

\* What a validator returns: a mapping, or (on some paths of some
\* validators) a tuple of a mapping and a status code
Mapping(status, message) ==
    [shape |-> "mapping", status |-> status, message |-> message]
Pair(status, message, code) ==
    [shape |-> "pair", status |-> status, message |-> message, code |-> code]

\* What a validator did: the stages it evaluated in order, the content
\* reads it attempted, the connections or clients it opened and closed
Did(body, stages, reads, opened, closed) ==
    [body |-> body, stages |-> stages, reads |-> reads,
     opened |-> opened, closed |-> closed, raised |-> FALSE]

\* A validator whose connect call is outside its try: the driver's
\* exception leaves it
connect_mysql_Propagates(params, env) ==
    IF \E k \in {"host", "username", "password", "database"} : ~Present(params, k)
    THEN Did(Mapping("error", "Missing required parameters"), <<"parameters">>, 0, 0, 0)
    ELSE IF env.mysql
    THEN Did(Mapping("success", "Connected to MySQL successfully!"),
             <<"parameters", "connect">>, 0, 1, 1)
    ELSE [Did([shape |-> "none", status |-> "none"], <<"parameters", "connect">>, 0, 0, 0)
            EXCEPT !.raised = TRUE]

\* connect_mysql (lines 94-153). The test of line 98 already takes every
\* empty value, so the test of line 106 finds none.
MySQLRequired == {"host", "username", "password", "database"}
connect_mysql(params, env) ==
    IF \E k \in MySQLRequired : ~Present(params, k)
    THEN Did(Mapping("error", "Missing required parameters"), <<"parameters">>, 0, 0, 0)
    ELSE IF env.mysql
    THEN Did(Mapping("success", "Connected to MySQL successfully!"),
             <<"parameters", "connect">>, 0, 1, 1)
    ELSE LET e == Field(env, "mysql_error", "unreachable")
         IN Did(Mapping("error",
                        CASE e = "denied" -> "Access denied"
                          [] e = "unreachable" -> "MySQL Connection Issue"
                          [] e = "db_error" -> "MySQL Database Error"
                          [] OTHER -> "Unexpected MySQL Error"),
                <<"parameters", "connect">>, 0, 0, 0)

\* str.endswith(('.xlsx', '.xls')), str.endswith('.csv'): the last token of
\* a path is its extension
HasExtension(path, exts) == path # <<>> /\ path[Len(path)] \in exts

\* What is found at a path: nothing, a directory, or a file whose content
\* a reader loads or fails on
ApiFileStates == FileStates \cup {"directory", "parse_error", "value_error"}

\* A validator that looks at the extension before it looks for the path
connect_excel_ExtensionFirst(params, env) ==
    IF ~Present(params, "file_path")
    THEN Did(Mapping("error", "Missing required parameter: file_path"),
             <<"parameter">>, 0, 0, 0)
    ELSE IF ~HasExtension(params.file_path, {".xlsx", ".xls"})
    THEN Did(Mapping("error", "Unsupported file format. Please use .xlsx or .xls"),
             <<"parameter", "extension">>, 0, 0, 0)
    ELSE IF env.file = "missing"
    THEN Did(Mapping("error", "File not found"),
             <<"parameter", "extension", "exists">>, 0, 0, 0)
    ELSE IF env.file = "directory"
    THEN Did(Mapping("error", "Provided path is a directory, not a file"),
             <<"parameter", "extension", "exists", "directory">>, 0, 0, 0)
    ELSE Did(IF env.file = "ok"
             THEN Mapping("success", "Excel file loaded successfully")
             ELSE Mapping("error", "Error reading the Excel file"),
             <<"parameter", "extension", "exists", "directory", "read">>, 1, 0, 0)

\* connect_excel (lines 233-299)
connect_excel(params, env) ==
    IF ~Present(params, "file_path")
    THEN Did(Mapping("error", "Missing required parameter: file_path"),
             <<"parameter">>, 0, 0, 0)
    ELSE IF env.file = "missing"
    THEN Did(Mapping("error", "File not found"), <<"parameter", "exists">>, 0, 0, 0)
    ELSE IF env.file = "directory"
    THEN Did(Mapping("error", "Provided path is a directory, not a file"),
             <<"parameter", "exists", "directory">>, 0, 0, 0)
    ELSE IF ~HasExtension(params.file_path, {".xlsx", ".xls"})
    THEN Did(Mapping("error", "Unsupported file format. Please use .xlsx or .xls"),
             <<"parameter", "exists", "directory", "extension">>, 0, 0, 0)
    ELSE Did(CASE env.file = "ok" -> Mapping("success", "Excel file loaded successfully")
               [] env.file = "parse_error" ->
                     Mapping("error", "Failed to parse the Excel file")
               [] env.file = "value_error" ->
                     Mapping("error", "ValueError while reading Excel")
               [] OTHER -> Mapping("error", "Error reading the Excel file"),
             <<"parameter", "exists", "directory", "extension", "read">>, 1, 0, 0)

\* connect_csv (lines 301-340): the same stages; its failures are tuples
connect_csv(params, env) ==
    IF ~Present(params, "file_path")
    THEN Did(Pair("error", "Missing file path.", 400), <<"parameter">>, 0, 0, 0)
    ELSE IF env.file = "missing"
    THEN Did(Pair("error", "File not found.", 400), <<"parameter", "exists">>, 0, 0, 0)
    ELSE IF env.file = "directory"
    THEN Did(Pair("error", "Provided path is a directory, not a file.", 400),
             <<"parameter", "exists", "directory">>, 0, 0, 0)
    ELSE IF ~HasExtension(params.file_path, {".csv"})
    THEN Did(Pair("error", "Unsupported file format. Please use .csv", 400),
             <<"parameter", "exists", "directory", "extension">>, 0, 0, 0)
    ELSE Did(CASE env.file = "ok" -> Mapping("success", "CSV file loaded successfully")
               [] env.file = "parse_error" ->
                     Pair("error", "Failed to parse the CSV file.", 400)
               [] env.file = "value_error" ->
                     Pair("error", "ValueError while reading CSV", 400)
               [] OTHER -> Pair("error", "Error reading the CSV file", 500),
             <<"parameter", "exists", "directory", "extension", "read">>, 1, 0, 0)

\* What a remote service does with a connection attempt
RemoteStates ==
    {"ok", "not_found", "timeout", "denied", "failure", "invalid", "other"}

\* connect_sqlserver (lines 155-189): a key must be there, its value may be
\* empty; the connection is closed only after pyodbc.connect returned
connect_sqlserver(params, env) ==
    IF ~Has(params, "server") \/ ~Has(params, "database")
    THEN Did(Pair("error", "Missing required parameter", 400), <<"parameters">>, 0, 0, 0)
    ELSE LET e == Field(env, "remote", "ok")
         IN IF e = "ok"
            THEN Did(Mapping("success", "Connected to SQL Server successfully!"),
                     <<"parameters", "connect">>, 0, 1, 1)
            ELSE Did(CASE e = "not_found" -> Pair("error", "SQL Server Database Error", 500)
                       [] e = "invalid" -> Pair("error", "SQL Server Interface Error", 400)
                       [] e \in {"timeout", "failure"} ->
                             Pair("error", "SQL Server Operational Error", 500)
                       [] e = "denied" -> Pair("error", "SQL Server General Error", 500)
                       [] OTHER -> Pair("error", "Unexpected SQL Server Error", 500),
                     <<"parameters", "connect">>, 0, 0, 0)

\* connect_mongodb (lines 191-231): client.close() is reached on the
\* success path only
connect_mongodb(params, env) ==
    IF ~Has(params, "mongo_url") \/ ~Has(params, "database")
    THEN Did(Pair("error", "Missing required parameter", 400), <<"parameters">>, 0, 0, 0)
    ELSE IF params.mongo_url = <<>> \/ Head(params.mongo_url) # "mongodb"
    THEN Did(Pair("error", "Invalid MongoDB URL format.", 400),
             <<"parameters", "url">>, 0, 0, 0)
    ELSE LET e == Field(env, "remote", "ok")
         IN CASE e = "ok" ->
                   Did(Mapping("success", "Connected to MongoDB database successfully!"),
                       <<"parameters", "url", "connect", "database">>, 0, 1, 1)
              [] e = "invalid" ->
                   Did(Pair("error", "Invalid MongoDB URI", 400),
                       <<"parameters", "url", "connect">>, 0, 0, 0)
              [] e = "not_found" ->
                   Did(Pair("error", "Database not found.", 400),
                       <<"parameters", "url", "connect", "database">>, 0, 1, 0)
              [] e = "timeout" ->
                   Did(Pair("error", "MongoDB Server unreachable.", 500),
                       <<"parameters", "url", "connect", "database">>, 0, 1, 0)
              [] e = "denied" ->
                   Did(Pair("error", "MongoDB Authentication failed", 401),
                       <<"parameters", "url", "connect", "database">>, 0, 1, 0)
              [] e = "failure" ->
                   Did(Pair("error", "MongoDB Connection failed", 500),
                       <<"parameters", "url", "connect", "database">>, 0, 1, 0)
              [] OTHER ->
                   Did(Pair("error", "Unexpected MongoDB Error", 500),
                       <<"parameters", "url", "connect", "database">>, 0, 1, 0)

\* connect_google_sheets (lines 342-383): every path returns a mapping
connect_google_sheets(params, env) ==
    IF ~Has(params, "credentials_file") \/ ~Has(params, "sheet_id")
    THEN Did(Mapping("error", "Missing required parameter"), <<"parameters">>, 0, 0, 0)
    ELSE IF env.file = "missing"
    THEN Did(Mapping("error", "Credentials file not found"),
             <<"parameters", "exists">>, 0, 0, 0)
    ELSE IF env.file # "ok"
    THEN Did(Mapping("error", "Invalid credentials file format."),
             <<"parameters", "exists", "authorize">>, 1, 0, 0)
    ELSE LET e == Field(env, "remote", "ok")
         IN Did(CASE e = "ok" -> Mapping("success", "Connected to Google Sheets successfully!")
                  [] e = "not_found" -> Mapping("error", "Google Sheets document not found.")
                  [] e = "denied" -> Mapping("error", "Permission denied.")
                  [] e \in {"timeout", "failure", "invalid"} ->
                        Mapping("error", "Google Sheets API Error")
                  [] OTHER -> Mapping("error", "Unexpected error while accessing Google Sheets"),
                <<"parameters", "exists", "authorize", "open">>, 1, 0, 0)

SUPPORTED_DATA_SOURCES == {"mysql", "sqlserver", "mongodb", "excel", "csv", "google_sheets"}

\* POST /connect (lines 62-91). What the validator returned is the body of
\* a 200 response, whatever its status tag or shape; an unsupported tag is
\* a 400. requests.post raises when the service does not answer.
connect_database(data_source, params, env) ==
    IF ~env.api
    THEN [Did([shape |-> "none", status |-> "none"], <<>>, 0, 0, 0)
            EXCEPT !.raised = TRUE] @@ [status_code |-> 0]
    ELSE IF data_source \notin SUPPORTED_DATA_SOURCES
    THEN Did([shape |-> "detail", status |-> "none"], <<>>, 0, 0, 0) @@ [status_code |-> 400]
    ELSE (CASE data_source = "mysql" -> connect_mysql(params, env)
            [] data_source = "sqlserver" -> connect_sqlserver(params, env)
            [] data_source = "mongodb" -> connect_mongodb(params, env)
            [] data_source = "excel" -> connect_excel(params, env)
            [] data_source = "csv" -> connect_csv(params, env)
            [] OTHER -> connect_google_sheets(params, env)) @@ [status_code |-> 200]

\* POST /connect/excel (lines 52-60): the HTTPException of line 56 is
\* caught at line 59 and raised again as a 500
connect_excel_endpoint(file_path, env) ==
    IF env.file = "missing"
    THEN Did([shape |-> "detail", status |-> "none"], <<"exists">>, 0, 0, 0)
            @@ [status_code |-> 500]
    ELSE IF env.file = "ok"
    THEN Did(Mapping("success", "Connected to Excel file successfully!"),
             <<"exists", "read">>, 1, 0, 0) @@ [status_code |-> 200]
    ELSE Did([shape |-> "detail", status |-> "none"], <<"exists", "read">>, 1, 0, 0)
            @@ [status_code |-> 500]

\* POST /connect/mysql (lines 36-50)
connect_mysql_endpoint(request, env) ==
    IF env.mysql
    THEN Did(Mapping("success", "Connected to MySQL successfully!"), <<"connect">>, 0, 1, 1)
            @@ [status_code |-> 200]
    ELSE Did([shape |-> "detail", status |-> "none"], <<"connect">>, 0, 0, 0)
            @@ [status_code |-> 500]

----------------------------------------------------------------------------
(* db_config.py: update_mysql_config, update_excel_config *)

\* lines 8-17: the form's user is sent as "username"
Payload(params) ==
    [host |-> params.host, username |-> params.user, password |-> params.password,
     database |-> params.database, port |-> params.port]

update_mysql_config(cfg, ss, params, env) ==
    LET response == connect_database("mysql", Payload(params), env)
    IN IF ~response.raised /\ response.status_code = 200
       THEN [ok |-> TRUE,
             cfg |-> [cfg EXCEPT !.type = "mysql", !.mysql = params],
             ss |-> [ss EXCEPT !.db_connected = TRUE, !.db_config = "current_db_config"]]
       ELSE [ok |-> FALSE, cfg |-> cfg, ss |-> ss]

update_excel_config(cfg, ss, file_path, env) ==
    LET response == connect_database("excel", [file_path |-> file_path], env)
    IN IF ~response.raised /\ response.status_code = 200
       THEN [ok |-> TRUE,
             cfg |-> [cfg EXCEPT !.type = "excel", !.excel = [file_path |-> file_path]],
             ss |-> [ss EXCEPT !.db_connected = TRUE, !.db_config = "current_db_config"]]
       ELSE [ok |-> FALSE, cfg |-> cfg, ss |-> ss]

----------------------------------------------------------------------------
(* main_app.py: the connection form *)

DbTypes == {"mysql", "excel", "combined"}

\* History of the connect buttons: the button whose handler last reported
\* success, and whether the validators it asked really answered "success"
NoConnect == [button |-> "none", validated |-> FALSE]
Validated(data_source, params, env) ==
    connect_database(data_source,
                     IF data_source = "mysql" THEN Payload(params) ELSE params,
                     env).body.status = "success"

\* What the user can type into the form
MySQLInputs ==
    {[host |-> <<"h1">>, user |-> <<"u">>, password |-> <<"p">>, database |-> <<"shop">>,
      port |-> 3306]}

ExcelInputs == {<<"a", SL, "book", ".xlsx">>}

\* lines 147-149: the radio selection, stored on every script run
SelectDbType(t) ==
    /\ t # session_state.selected_db_type
    /\ session_state' = [session_state EXCEPT !.selected_db_type = t]
    /\ UNCHANGED <<current_db_config, last_connect>>

\* lines 161-167
ClickConnectMySQL(params, env) ==
    /\ session_state.selected_db_type = "mysql"
    /\ LET r == update_mysql_config(current_db_config, session_state, params, env)
       IN /\ current_db_config' = r.cfg
          /\ session_state' = IF r.ok THEN [r.ss EXCEPT !.mysql_connected = TRUE] ELSE r.ss
          /\ last_connect' =
                IF r.ok THEN [button |-> "mysql", validated |-> Validated("mysql", params, env)]
                ELSE last_connect

\* lines 171-177
ClickConnectExcel(file_path, env) ==
    /\ session_state.selected_db_type = "excel"
    /\ LET r == update_excel_config(current_db_config, session_state, file_path, env)
       IN /\ current_db_config' = r.cfg
          /\ session_state' = IF r.ok THEN [r.ss EXCEPT !.excel_connected = TRUE] ELSE r.ss
          /\ last_connect' =
                IF r.ok
                THEN [button |-> "excel",
                      validated |-> Validated("excel", [file_path |-> file_path], env)]
                ELSE last_connect

\* lines 192-201: both updates run one after the other, then the test
ClickConnectBoth(params, file_path, env) ==
    /\ session_state.selected_db_type = "combined"
    /\ LET m == update_mysql_config(current_db_config, session_state, params, env)
           e == update_excel_config(m.cfg, m.ss, file_path, env)
       IN /\ current_db_config' = e.cfg
          /\ session_state' =
                IF m.ok /\ e.ok
                THEN [e.ss EXCEPT !.mysql_connected = TRUE,
                                  !.excel_connected = TRUE,
                                  !.db_connected = TRUE]
                ELSE e.ss
          /\ last_connect' =
                IF m.ok /\ e.ok
                THEN [button |-> "combined",
                      validated |-> /\ Validated("mysql", params, env)
                                    /\ Validated("excel", [file_path |-> file_path], env)]
                ELSE last_connect

----------------------------------------------------------------------------
(* schema_utils.py: the persisted schema record and get_database_schema *)

\* The live sources of the world: what SHOW TABLES / DESCRIBE report for a
\* server and database, and the sheets and header rows of a workbook, at a
\* given revision of the source. A schema is a set of [name, columns]
\* entries with distinct names (a dict); columns is a list of Python values.
Entry(name, columns) == [name |-> name, columns |-> columns]
PyDatetime(d) == [kind |-> "datetime", d |-> d]

LiveTables(params, rev) ==
    CASE params.host = <<"h1">> /\ params.database = <<"shop">> ->
            <<Entry("orders", <<PyStr(<<"id">>), PyStr(<<"total">>)>>
                              \o (IF rev = 0 THEN <<>> ELSE <<PyStr(<<"note">>)>>))>>
      [] params.host = <<"h2">> /\ params.database = <<"shop">> ->
            <<Entry("items", <<PyStr(<<"sku">>)>>),
              Entry("stock", <<PyStr(<<"sku">>), PyStr(<<"qty">>)>>)>>
      [] OTHER -> <<>>

LiveSheets(path, rev) ==
    CASE path = <<"a", SL, "book", ".xlsx">> ->
            <<Entry("Sheet1", <<PyStr(<<"name">>), PyInt(2020)>>
                              \o (IF rev = 0 THEN <<>> ELSE <<PyInt(2021)>>))>>
      [] path = <<"b", SL, "book", ".xlsx">> ->
            <<Entry("Sheet1", <<PyStr(<<"city">>)>>)>>
      [] path = <<"a", SL, "dates", ".xlsx">> ->
            <<Entry("Plan", <<PyStr(<<"task">>), PyDatetime(1)>>)>>
      [] OTHER -> <<>>

\* os.path.basename: what follows the last "/"
RECURSIVE Basename(_)
Basename(path) ==
    IF path = <<>> THEN <<>>
    ELSE IF \E i \in DOMAIN path : path[i] = SL
         THEN Basename(Tail(path))
         ELSE path

\* json.dump of one column value: a str is a JSON string, an int a JSON
\* number; a datetime is not serializable (TypeError)
JsonSerializable(x) == x.kind \in {"str", "int", "bool", "None"}
JsonEncode(x) ==
    CASE x.kind = "str" -> [j |-> "string", s |-> x.v]
      [] x.kind = "int" -> [j |-> "number", n |-> x.v]
      [] OTHER -> [j |-> "null"]
JsonDecode(y) ==
    CASE y.j = "string" -> PyStr(y.s)
      [] y.j = "number" -> PyInt(y.n)
      [] OTHER -> None

JsonEncodeList(xs) == [i \in DOMAIN xs |-> JsonEncode(xs[i])]
JsonDecodeList(ys) == [i \in DOMAIN ys |-> JsonDecode(ys[i])]
JsonEncodeSchema(schema) == {Entry(e.name, JsonEncodeList(e.columns)) : e \in schema}
JsonDecodeSchema(js) == {Entry(e.name, JsonDecodeList(e.columns)) : e \in js}
SchemaSerializable(schema) ==
    \A e \in schema : \A i \in DOMAIN e.columns : JsonSerializable(e.columns[i])

\* schema.json: absent, not parseable as the expected object, or a record
FileAbsent == [state |-> "absent"]
FileCorrupt == [state |-> "corrupt"]
PersistedRecord(current_db, db_type, schema) ==
    [state |-> "json", database |-> current_db, db_type |-> db_type,
     schema |-> JsonEncodeSchema(schema)]

\* A write that tags every record as relational
json_dump_NoKind(current_db, db_type, schema) ==
    [raised |-> ~SchemaSerializable(schema),
     file |-> PersistedRecord(current_db, "mysql", schema)]

\* lines 61-66: open(..., "w") truncates the file; json.dump then writes the
\* record, or raises part-way through on a value it cannot serialize
json_dump(current_db, db_type, schema) ==
    IF SchemaSerializable(schema)
    THEN [raised |-> FALSE, file |-> PersistedRecord(current_db, db_type, schema)]
    ELSE [raised |-> TRUE, file |-> FileCorrupt]

\* A test that never takes the persisted record
CacheHit_Never(file, current_db, db_type) == FALSE

\* line 23: both tags of the record equal the active source's
CacheHit(file, current_db, db_type) ==
    /\ file.state = "json"
    /\ file.database = current_db
    /\ file.db_type = db_type

\* How the persisted record stands to the active source before a call
CacheState(file, current_db, db_type) ==
    CASE file.state = "absent" -> "absent"
      [] file.state = "corrupt" -> "unreadable"
      [] CacheHit(file, current_db, db_type) -> "match"
      [] OTHER -> "mismatch"

\* The first n entries of a listing, as a dict
FirstEntries(entries, n) == {entries[i] : i \in 1..n}

\* lines 31-50: the relational introspection. fail_at = 0: no statement
\* fails; fail_at = k: the DESCRIBE of the k-th table raises. The entries
\* already stored stay in schema; the connection is closed in finally.
IntrospectMySQL(cfg, ss, env, rev, fail_at) ==
    LET params == get_db_config(cfg, ss).mysql
        tables == LiveTables(params, rev)
    IN IF ~env.mysql
       THEN [schema |-> {}, opened |-> 0, closed |-> 0, reads |-> 0, failed |-> TRUE]
       ELSE IF params.database = <<>>
            THEN [schema |-> {}, opened |-> 1, closed |-> 1, reads |-> 0, failed |-> TRUE]
            ELSE IF fail_at \in 1..Len(tables)
                 THEN [schema |-> FirstEntries(tables, fail_at - 1),
                       opened |-> 1, closed |-> 1, reads |-> 0, failed |-> TRUE]
                 ELSE [schema |-> FirstEntries(tables, Len(tables)),
                       opened |-> 1, closed |-> 1, reads |-> 0, failed |-> FALSE]

\* lines 52-59: the tabular introspection goes through get_db_connection,
\* which resolves by the configuration's type: under a "mysql" configuration
\* it hands back a database connection, on which read_excel raises
IntrospectExcel(cfg, ss, env, rev) ==
    LET excel_path == get_db_connection(cfg, ss, env, 0)
    IN CASE excel_path.kind = "path" ->
              IF env.file = "ok"
              THEN [schema |-> LET sheets == LiveSheets(excel_path.v, rev)
                               IN FirstEntries(sheets, Len(sheets)),
                    opened |-> 0, closed |-> 0, reads |-> 1, failed |-> FALSE]
              ELSE [schema |-> {}, opened |-> 0, closed |-> 0, reads |-> 1, failed |-> TRUE]
         [] excel_path.kind = "connection" ->
              [schema |-> {}, opened |-> 1, closed |-> 0, reads |-> 0, failed |-> TRUE]
         [] OTHER ->
              [schema |-> {}, opened |-> 0, closed |-> 0, reads |-> 0, failed |-> TRUE]

\* The live source a call for db_type looks at
SourceOf(cfg, ss, db_type) ==
    LET db_config == get_db_config(cfg, ss)
    IN IF db_type = "mysql"
       THEN [kind |-> "mysql", host |-> db_config.mysql.host,
             database |-> db_config.mysql.database]
       ELSE [kind |-> "excel", path |-> NormalizePath(db_config.excel.file_path)]

\* get_database_schema(db_source); db_source = "default" is the call without
\* an argument. The result records what the call did and left behind.
get_database_schema(db_source, cfg, ss, file, env, rev, fail_at) ==
    LET db_config == get_db_config(cfg, ss)
        db_type == IF db_source # "default" THEN db_source ELSE db_config.type
        current_db == IF db_type = "mysql" THEN db_config.mysql.database
                      ELSE Basename(db_config.excel.file_path)
        before == CacheState(file, current_db, db_type)
        call == [db_type |-> db_type, current_db |-> current_db,
                 source |-> SourceOf(cfg, ss, db_type), rev |-> rev, before |-> before]
    IN IF CacheHit(file, current_db, db_type)
       THEN [call |-> call, introspected |-> FALSE, failed |-> FALSE,
             opened |-> 0, closed |-> 0, reads |-> 0,
             wrote |-> FALSE, kept |-> TRUE, raised |-> FALSE,
             ret |-> JsonDecodeSchema(file.schema), file |-> file]
       ELSE LET live == IF db_type = "mysql"
                        THEN IntrospectMySQL(cfg, ss, env, rev, fail_at)
                        ELSE IntrospectExcel(cfg, ss, env, rev)
                w == json_dump(current_db, db_type, live.schema)
            IN [call |-> call, introspected |-> TRUE, failed |-> live.failed,
                opened |-> live.opened, closed |-> live.closed, reads |-> live.reads,
                wrote |-> TRUE, kept |-> (w.file = file), raised |-> w.raised,
                ret |-> live.schema, file |-> w.file]

----------------------------------------------------------------------------
(* executor.py: values returned by execute_sql_query *)

ReturnRows(rows) == [kind |-> "list", items |-> rows]
ReturnError(prefix, detail) == [kind |-> "dict", error |-> <<prefix, detail>>]
Raised(exc) == [kind |-> "raise", exc |-> exc]

\* lines 8-13
decimal_to_serializable(obj) ==
    CASE obj.kind = "Decimal" -> [kind |-> "float", v |-> obj.v]
      [] obj.kind \in {"date", "datetime"} ->
            PyStr(<<obj.v[1], "-", obj.v[2], "-", obj.v[3]>>)
      [] OTHER -> obj

----------------------------------------------------------------------------
(* executor.py lines 19-37: the relational path *)

SEMI == ";"
SqlChars == {SEMI, SP, "a", "b"}

RECURSIVE NonBlank(_)
NonBlank(pieces) ==
    IF pieces = <<>> THEN <<>>
    ELSE (IF StrStrip(Head(pieces)) # <<>> THEN <<Head(pieces)>> ELSE <<>>)
         \o NonBlank(Tail(pieces))

\* lines 26-27: the statements handed to cursor.execute, in loop order
StatementsOf(query) == NonBlank(StrSplit(StrStrip(query), SEMI))

\* A loop that goes on after a statement raised
ExecutedStatements_NoStop(stmts, fail_at) == stmts

\* line 28: the loop leaves at the first cursor.execute that raises;
\* fail_at is the position of that statement, 0 when none raises
ExecutedStatements(stmts, fail_at) ==
    IF fail_at \in 1..Len(stmts) THEN SubSeq(stmts, 1, fail_at) ELSE stmts

\* The server's answer to one statement: one row naming the statement, with
\* one value of a driver type
ServerRows(stmt, value) == <<[q |-> PyStr(stmt), value |-> value]>>

DbValues ==
    {PyInt(5), [kind |-> "Decimal", v |-> 2], [kind |-> "date", v |-> <<"2024", "01", "31">>]}

\* line 29: the cursor holds the result of the last statement it executed
cursor_fetchall(run, value, fetch_ok) ==
    IF run = <<>> \/ ~fetch_ok THEN Raised("ProgrammingError")
    ELSE ReturnRows(ServerRows(run[Len(run)], value))

\* line 31
SerializeRows(rows) ==
    [i \in DOMAIN rows |->
        [q |-> decimal_to_serializable(rows[i].q),
         value |-> decimal_to_serializable(rows[i].value)]]

\* A release that happens only when the body did not raise
CloseCalls_OnSuccessOnly(connection, raised) ==
    IF Truthy(connection) /\ ~raised THEN 1 ELSE 0

\* lines 35-37: the finally clause runs whether or not the body raised
CloseCalls(connection, raised) == IF Truthy(connection) THEN 1 ELSE 0

EmptyNamespace == [n \in {} |-> None]

RelationalPath(query, cfg, ss, env, db) ==
    LET connection == get_db_connection(cfg, ss, env, 0)
        stmts == StatementsOf(query)
        run == ExecutedStatements(stmts, db.fail_at)
        failed == db.fail_at \in 1..Len(stmts)
        fetched == cursor_fetchall(run, db.value, db.fetch_ok)
        base == [path |-> "mysql", log |-> <<>>, opened |-> 0,
                 closed |-> CloseCalls(connection, failed \/ fetched.kind = "raise"), runs |-> 0, stdout |-> <<>>,
                 fault |-> "none",
                 ns_start |-> EmptyNamespace, ns_end |-> EmptyNamespace,
                 ret |-> None]
    IN IF ~Truthy(connection)
       THEN [base EXCEPT !.ret = ReturnError("error", "Failed to establish MySQL connection")]
       ELSE IF failed \/ fetched.kind = "raise"
       THEN [base EXCEPT !.opened = 1, !.log = run,
                         !.ret = ReturnError("SQL Execution Error", "Exception")]
       ELSE [base EXCEPT !.opened = 1, !.log = run,
                         !.ret = ReturnRows(SerializeRows(fetched.items))]

----------------------------------------------------------------------------
(* executor.py lines 39-84: the tabular path *)

Name(token) == <<token>>

DigitStr(i) == CASE i = 0 -> "0" [] i = 1 -> "1" [] i = 2 -> "2" [] OTHER -> "3"

\* line 52: f"df_{i}"
DfAlias(i) == <<"df", "_", DigitStr(i)>>

\* line 49: sheet_name.replace(" ", "_").replace("-", "_")
RECURSIVE SafeName(_)
SafeName(sheet_name) ==
    IF sheet_name = <<>> THEN <<>>
    ELSE <<IF Head(sheet_name) \in {SP, "-"} THEN "_" ELSE Head(sheet_name)>>
         \o SafeName(Tail(sheet_name))

\* The table loaded from one sheet; its records are the sheet's rows
Frame(sheet_name) == [kind |-> "DataFrame", sheet |-> sheet_name]
to_dict_records(frame) == <<[row_of |-> frame.sheet]>>

\* What pd.read_excel(path, sheet_name=None) can load: the sheet names in
\* workbook order
Workbooks ==
    {<<<<"Sheet", SP, "1">>>>, <<<<"Sales", "-", "Q1">>, <<"Data">>>>,
     <<<<"Data">>, <<"result">>>>}

Bind(ns, name, value) ==
    [n \in (DOMAIN ns) \cup {name} |-> IF n = name THEN value ELSE ns[n]]

\* lines 51-52: the inner loop over every sheet
RECURSIVE BindAliases(_, _, _)
BindAliases(ns, wb, i) ==
    IF i > Len(wb) THEN ns
    ELSE BindAliases(Bind(ns, DfAlias(i - 1), Frame(wb[i])), wb, i + 1)

\* lines 48-52
RECURSIVE BindSheets(_, _, _)
BindSheets(ns, wb, k) ==
    IF k > Len(wb) THEN ns
    ELSE BindSheets(BindAliases(Bind(ns, SafeName(wb[k]), Frame(wb[k])), wb, 1), wb, k + 1)

ExcelData(wb) == [kind |-> "dict", sheets |-> wb]
EmptyList == [kind |-> "list", items |-> <<>>]

\* lines 46-63
TabularNamespace(wb) ==
    LET n1 == BindSheets(EmptyNamespace, wb, 1)
        n2 == Bind(n1, Name("pd"), [kind |-> "module"])
        n3 == Bind(n2, Name("excel_data"), ExcelData(wb))
        n4 == Bind(n3, Name("result"), None)
        n5 == Bind(n4, Name("print_output"), EmptyList)
    IN Bind(n5, Name("print"), [kind |-> "custom_print"])

\* str(arg)
StrOf(v) ==
    CASE v.kind = "str" -> v.v
      [] v.kind = "int" -> <<DigitStr(v.v)>>
      [] v.kind = "list" -> <<"[", "..", "]">>
      [] OTHER -> <<v.kind>>

RECURSIVE StrOfAll(_)
StrOfAll(args) == IF args = <<>> THEN <<>> ELSE <<StrOf(Head(args))>> \o StrOfAll(Tail(args))

\* lines 59-61
custom_print(ns, args) ==
    LET output == StrJoin(StrOfAll(args), SP)
        buffer == ns[Name("print_output")]
    IN Bind(ns, Name("print_output"),
            [buffer EXCEPT !.items = Append(@, PyStr(output))])

\* line 64: exec(query, globals(), local_namespace) runs the text as a class
\* body: a name used at the top level is looked up in local_namespace first;
\* a name used inside a function or comprehension of the text is looked up in
\* the module's globals and the builtins only.
ResolveName(name, scope, ns) ==
    IF scope = "top" /\ name \in DOMAIN ns THEN ns[name]
    ELSE IF name = Name("print") THEN [kind |-> "builtin_print"]
    ELSE Raised("NameError")

\* The artifact as the effects its execution has, in order
PrintArgLists ==
    {<<>>, <<PyStr(<<"a">>)>>, <<PyStr(<<"a">>), PyInt(1)>>}

AssignedExprs ==
    {[expr |-> "const", value |-> None],
     [expr |-> "const", value |-> PyInt(1)],
     [expr |-> "const", value |-> [kind |-> "list", items |-> <<PyInt(1)>>]],
     [expr |-> "name", name |-> DfAlias(0)],
     [expr |-> "name", name |-> DfAlias(1)]}

ScriptOps ==
    {[op |-> "print", scope |-> "top", args |-> a] : a \in PrintArgLists}
    \cup {[op |-> "print", scope |-> "nested", args |-> <<PyStr(<<"a">>)>>]}
    \cup {[op |-> "assign", rhs |-> e] : e \in AssignedExprs}
    \cup {[op |-> "raise", exc |-> x] : x \in {"Exception", "SystemExit"}}

RECURSIVE ScriptsOf(_)
ScriptsOf(n) ==
    IF n = 0 THEN {<<>>}
    ELSE LET shorter == ScriptsOf(n - 1)
         IN shorter \cup {Append(sc, o) : sc \in shorter, o \in ScriptOps}

\* The name an assignment binds: the artifacts enumerated above assign to
\* "result"; an artifact may assign to another name
AssignTarget(o) == IF "target" \in DOMAIN o THEN o.target ELSE Name("result")

EvalExpr(e, ns) ==
    IF e.expr = "const" THEN e.value ELSE ResolveName(e.name, "top", ns)

\* One statement of the artifact under exec
ExecStep(o, st) ==
    CASE o.op = "print" ->
            LET f == ResolveName(Name("print"), o.scope, st.ns)
            IN IF f.kind = "custom_print"
               THEN [st EXCEPT !.ns = custom_print(st.ns, o.args)]
               ELSE [st EXCEPT !.stdout = Append(@, StrJoin(StrOfAll(o.args), SP))]
      [] o.op = "assign" ->
            LET v == EvalExpr(o.rhs, st.ns)
            IN IF v.kind = "raise" THEN [st EXCEPT !.fault = "Exception"]
               ELSE [st EXCEPT !.ns = Bind(st.ns, AssignTarget(o), v)]
      [] OTHER -> [st EXCEPT !.fault = o.exc]

RECURSIVE RunScript(_, _)
RunScript(script, st) ==
    IF script = <<>> \/ st.fault # "none" THEN st
    ELSE RunScript(Tail(script), ExecStep(Head(script), st))

PyExec(script, ns) == RunScript(script, [ns |-> ns, stdout |-> <<>>, fault |-> "none"])

IsScalar(v) == v.kind \in {"int", "float", "str", "bool"}

OutputRows(buffer) == [i \in DOMAIN buffer.items |-> [output |-> buffer.items[i]]]

NoResultsRow == [message |-> "Query executed but no results returned"]

\* The combined path's order (lines 108-117) applied to the tabular path
SelectTabularResult_PrintBeforeOther(ns) ==
    LET result_df == ns[Name("result")]
        print_output == ns[Name("print_output")]
    IN IF result_df.kind = "DataFrame" THEN ReturnRows(to_dict_records(result_df))
       ELSE IF IsScalar(result_df)
       THEN ReturnRows(<<[result |-> decimal_to_serializable(result_df)]>>)
       ELSE IF Truthy(print_output) THEN ReturnRows(OutputRows(print_output))
       ELSE ReturnRows(<<NoResultsRow>>)

\* lines 66-81
SelectTabularResult(ns) ==
    LET result_df == ns[Name("result")]
        print_output == ns[Name("print_output")]
    IN IF result_df # None
       THEN IF result_df.kind = "DataFrame" THEN ReturnRows(to_dict_records(result_df))
            ELSE IF IsScalar(result_df)
            THEN ReturnRows(<<[result |-> decimal_to_serializable(result_df)]>>)
            ELSE ReturnRows(<<[result |-> PyStr(StrOf(result_df))]>>)
       ELSE IF Truthy(print_output) THEN ReturnRows(OutputRows(print_output))
       ELSE ReturnRows(<<NoResultsRow>>)

TabularPath(script, cfg, ss, env, wb) ==
    LET excel_path == get_db_connection(cfg, ss, env, 0)
        ns == TabularNamespace(wb)
        done == PyExec(script, ns)
        base == [path |-> "excel", log |-> <<>>, opened |-> 0, closed |-> 0,
                 runs |-> 0, stdout |-> <<>>, fault |-> "none",
                 ns_start |-> EmptyNamespace, ns_end |-> EmptyNamespace,
                 ret |-> None]
    IN IF ~Truthy(excel_path)
       THEN [base EXCEPT !.ret = ReturnError("error", "Failed to get Excel file path")]
       ELSE IF env.file # "ok"
       THEN [base EXCEPT !.ret = ReturnError("Excel Query Execution Error", "Exception")]
       ELSE LET ran == [base EXCEPT !.runs = 1, !.ns_start = ns, !.ns_end = done.ns,
                                    !.stdout = done.stdout, !.fault = done.fault]
            IN IF done.fault = "Exception"
               THEN [ran EXCEPT !.ret = ReturnError("Excel Query Execution Error", "Exception")]
               ELSE IF done.fault # "none" THEN [ran EXCEPT !.ret = Raised(done.fault)]
               ELSE [ran EXCEPT !.ret = SelectTabularResult(done.ns)]

----------------------------------------------------------------------------
(* executor.py lines 86-120: the combined path *)

BothRequired == "Both MySQL and Excel connections are required for combined execution."

\* lines 94-106
CombinedNamespace(mysql_conn, wb) ==
    LET n1 == Bind(EmptyNamespace, Name("pd"), [kind |-> "module"])
        n2 == Bind(n1, Name("conn"), mysql_conn)
        n3 == Bind(n2, Name("excel_data"), ExcelData(wb))
        n4 == Bind(n3, Name("result"), None)
        n5 == Bind(n4, Name("print_output"), EmptyList)
    IN Bind(n5, Name("print"), [kind |-> "custom_print"])

\* lines 108-117
SelectCombinedResult(ns) ==
    LET result == ns[Name("result")]
        print_output == ns[Name("print_output")]
    IN IF result.kind = "DataFrame" THEN ReturnRows(to_dict_records(result))
       ELSE IF IsScalar(result)
       THEN ReturnRows(<<[result |-> decimal_to_serializable(result)]>>)
       ELSE IF Truthy(print_output) THEN ReturnRows(OutputRows(print_output))
       ELSE ReturnRows(<<NoResultsRow>>)

CombinedPath(script, cfg, ss, env, wb) ==
    LET mysql_conn == get_db_connection(cfg, ss, env, 1)
        excel_path == get_db_connection(cfg, ss, env, 1)
        base == [path |-> "combined", log |-> <<>>, opened |-> 0, closed |-> 0,
                 runs |-> 0, stdout |-> <<>>, fault |-> "none",
                 ns_start |-> EmptyNamespace, ns_end |-> EmptyNamespace,
                 ret |-> None]
    IN IF mysql_conn.kind = "raise" \/ excel_path.kind = "raise"
       THEN [base EXCEPT !.ret = ReturnError("Combined query execution error", "TypeError")]
       ELSE IF ~Truthy(mysql_conn) \/ ~Truthy(excel_path)
       THEN [base EXCEPT !.ret = ReturnError("error", BothRequired)]
       ELSE IF env.file # "ok"
       THEN [base EXCEPT !.ret = ReturnError("Combined query execution error", "Exception")]
       ELSE LET ns == CombinedNamespace(mysql_conn, wb)
                done == PyExec(script, ns)
                ran == [base EXCEPT !.runs = 1, !.ns_start = ns, !.ns_end = done.ns,
                                    !.stdout = done.stdout, !.fault = done.fault,
                                    !.opened = 1]
            IN IF done.fault = "Exception"
               THEN [ran EXCEPT !.ret = ReturnError("Combined query execution error", "Exception")]
               ELSE IF done.fault # "none" THEN [ran EXCEPT !.ret = Raised(done.fault)]
               ELSE [ran EXCEPT !.ret = SelectCombinedResult(done.ns)]

----------------------------------------------------------------------------
(* executor.py lines 15-120: execute_sql_query *)

execute_sql_query(query, cfg, ss, env, db, wb) ==
    LET db_config == get_db_config(cfg, ss)
        db_type == db_config.type
    IN CASE db_type = "mysql" -> RelationalPath(query.text, cfg, ss, env, db)
         [] db_type = "excel" -> TabularPath(query.script, cfg, ss, env, wb)
         [] db_type \notin {"mysql", "excel"} /\ ss.selected_db_type = "combined" ->
               CombinedPath(query.script, cfg, ss, env, wb)
         [] OTHER ->
               [path |-> "none", log |-> <<>>, opened |-> 0, closed |-> 0,
                runs |-> 0, stdout |-> <<>>, fault |-> "none",
                ns_start |-> EmptyNamespace, ns_end |-> EmptyNamespace,
                ret |-> None]

RECURSIVE SqlTextsOf(_)
SqlTextsOf(n) ==
    IF n = 0 THEN {<<>>}
    ELSE LET shorter == SqlTextsOf(n - 1)
         IN shorter \cup {Append(t, c) : t \in shorter, c \in SqlChars}

NoCall ==
    [called |-> FALSE, text |-> <<>>, script |-> <<>>, env |-> [mysql |-> FALSE, file |-> "missing"],
     selected |-> "mysql", after |-> NoConnect, type |-> "mysql",
     fail_at |-> 0, fetch_ok |-> TRUE,
     path |-> "none", log |-> <<>>, opened |-> 0, closed |-> 0, runs |-> 0,
     stdout |-> <<>>, fault |-> "none", ns_start |-> EmptyNamespace, ns_end |-> EmptyNamespace,
     wb |-> <<>>, ret |-> None]

\* The outcomes of the server for the statements of one call: the statement
\* at fail_at raises (0: none does), fetchall raises or not, and the value
\* the rows carry
DbOutcomes(n) ==
    {[fail_at |-> k, fetch_ok |-> TRUE, value |-> PyInt(5)] : k \in 1..n}
    \cup {[fail_at |-> 0, fetch_ok |-> FALSE, value |-> PyInt(5)]}
    \cup {[fail_at |-> 0, fetch_ok |-> TRUE, value |-> v] : v \in DbValues}

\* The execute_sql_query call of main_app.py line 261 with what it did
ExecCall(text, script, mysql_up, file, db, wb) ==
    LET env == [api |-> TRUE, mysql |-> mysql_up, file |-> file]
        r == execute_sql_query([text |-> text, script |-> script],
                               current_db_config, session_state, env, db, wb)
    IN [called |-> TRUE, text |-> text, script |-> script,
        env |-> [mysql |-> mysql_up, file |-> file],
        selected |-> session_state.selected_db_type,
        after |-> last_connect,
        type |-> get_db_config(current_db_config, session_state).type,
        fail_at |-> db.fail_at, fetch_ok |-> db.fetch_ok,
        path |-> r.path, log |-> r.log, opened |-> r.opened,
        closed |-> r.closed, runs |-> r.runs, stdout |-> r.stdout,
        fault |-> r.fault,
        ns_start |-> r.ns_start, ns_end |-> r.ns_end, wb |-> wb, ret |-> r.ret]

\* main_app.py lines 205 and 244-265: the query button of a connected
\* session hands the generated artifact to execute_sql_query.  Only what the
\* call can look at is enumerated: the SQL text and the server's outcomes
\* when a connection is made on the relational path, the script and the
\* workbook when the file is loaded on the tabular path.
ExecuteQuery ==
    /\ session_state.db_connected
    /\ ~ex.called
    /\ LET db_type == get_db_config(current_db_config, session_state).type
           relational == db_type = "mysql"
       IN \E mysql_up \in BOOLEAN, file \in (IF relational THEN {"ok"} ELSE FileStates) :
          \E text \in (IF relational /\ mysql_up THEN SqlTextsOf(MaxQueryLen) ELSE {<<>>}),
             script \in (IF ~relational /\ file = "ok" THEN ScriptsOf(MaxOps) ELSE {<<>>}),
             wb \in (IF ~relational /\ file = "ok" THEN Workbooks ELSE {<<>>}) :
          \E db \in (IF relational /\ mysql_up THEN DbOutcomes(Len(StatementsOf(text)))
                     ELSE {[fail_at |-> 0, fetch_ok |-> TRUE, value |-> PyInt(5)]}) :
             ex' = ExecCall(text, script, mysql_up, file, db, wb)
    /\ UNCHANGED <<sessionVars, schemaVars, rq, api, race, sessions>>

InitExec ==
    /\ cq_input = <<>>
    /\ cq_outputs = <<>>
    /\ current_db_config = InitialConfig
    /\ session_state = InitialSession
    /\ last_connect = NoConnect
    /\ ex = NoCall
    /\ schema_file = FileAbsent
    /\ live_rev = 0
    /\ sc_calls = <<>>
    /\ rq = NoRequest
    /\ api = NoApiCall
    /\ race = NoRace
    /\ sessions = NoSessions

\* Every interaction reruns the script: the previous run's result is gone
NewRun == ex' = NoCall /\ UNCHANGED <<cleanVars, schemaVars, rq, api, race, sessions>>

NextExec ==
    \/ \E t \in DbTypes : SelectDbType(t) /\ NewRun
    \/ \E p \in MySQLInputs, env \in Envs : ClickConnectMySQL(p, env) /\ NewRun
    \/ \E f \in ExcelInputs, env \in Envs : ClickConnectExcel(f, env) /\ NewRun
    \/ \E p \in MySQLInputs, f \in ExcelInputs, env \in Envs :
          ClickConnectBoth(p, f, env) /\ NewRun
    \/ ExecuteQuery /\ UNCHANGED cleanVars

SpecExec == InitExec /\ [][NextExec]_vars

----------------------------------------------------------------------------
(* schema_utils.py get_combined_schema; db_config.py freshness checks *)

\* get_combined_schema (lines 70-80): under the Combined radio the "mysql"
\* call, then the "excel" call on the file the first left; otherwise one
\* call for the selected kind. calls lists the calls made, in order.
get_combined_schema(cfg, ss, file, env, rev, fail_at) ==
    IF ss.selected_db_type = "combined"
    THEN LET m == get_database_schema("mysql", cfg, ss, file, env, rev, fail_at)
             e == get_database_schema("excel", cfg, ss, m.file, env, rev, fail_at)
         IN IF m.raised
            THEN [raised |-> TRUE, calls |-> <<m>>, file |-> m.file,
                  ret |-> [mysql |-> {}, excel |-> {}]]
            ELSE [raised |-> e.raised, calls |-> <<m, e>>, file |-> e.file,
                  ret |-> [mysql |-> m.ret, excel |-> e.ret]]
    ELSE LET r == get_database_schema(ss.selected_db_type, cfg, ss, file, env, rev, fail_at)
         IN [raised |-> r.raised, calls |-> <<r>>, file |-> r.file, ret |-> r.ret]

\* The rows SELECT COUNT(*) reports for a table, and the workbook's
\* modification time: both move with the revision of the live source
LiveCount(rev) == rev
LiveMtime(rev) == rev

TableNames(entries) == {entries[i].name : i \in DOMAIN entries}

\* is_excel_updated (lines 60-68)
is_excel_updated(ss, file_path, env, rev) ==
    IF ~PathExists(file_path, env) THEN [ret |-> FALSE, ss |-> ss]
    ELSE IF ss.last_excel_update = NoTime \/ LiveMtime(rev) > ss.last_excel_update
         THEN [ret |-> TRUE, ss |-> [ss EXCEPT !.last_excel_update = LiveMtime(rev)]]
         ELSE [ret |-> FALSE, ss |-> ss]

\* is_any_mysql_table_updated (lines 70-94). The connection of line 74 is
\* used for the counts and is not closed on any path. A COUNT on a table the
\* server does not have raises; the exception is caught at line 92. (With
\* the live sources above the cached tables are all on the server or none
\* is, so no count is stored before a COUNT raises.)
is_any_mysql_table_updated(cfg, ss, file, env, rev, fail_at) ==
    LET r == get_database_schema("default", cfg, ss, file, env, rev, fail_at)
        conn == get_db_connection(cfg, ss, env, 0)
        opened == IF conn.kind = "connection" THEN 1 ELSE 0
        base == [ret |-> FALSE, ss |-> ss, file |-> r.file, calls |-> <<r>>,
                 opened |-> opened, closed |-> 0, caught |-> FALSE]
    IN IF r.raised THEN [base EXCEPT !.opened = 0, !.caught = TRUE]
       ELSE IF r.ret = {} \/ ~Truthy(conn) THEN base
       ELSE LET live == TableNames(LiveTables(get_db_config(cfg, ss).mysql, rev))
                tables == {e.name : e \in r.ret}
                stale == {c \in ss.mysql_table_counts :
                             c.table \in tables /\ c.count # LiveCount(rev)}
                fresh == {t \in tables :
                             \A c \in ss.mysql_table_counts : c.table # t}
                counts == {c \in ss.mysql_table_counts : c \notin stale}
                             \cup {[table |-> t, count |-> LiveCount(rev)] :
                                      t \in fresh \cup {c.table : c \in stale}}
            IN IF ~(tables \subseteq live) THEN [base EXCEPT !.caught = TRUE]
               ELSE [base EXCEPT !.ret = (stale # {} \/ fresh # {}),
                                 !.ss = [ss EXCEPT !.mysql_table_counts = counts]]

----------------------------------------------------------------------------
(* query_engine.py: generate_sql_query, generate_combined_query *)

\* The words of the strings the generators build; a word counts as one
\* character of the text
ERROR == "Error"
ErrorGenerating == <<ERROR, SP, "generating">>
ErrorGeneratingQuery(e) == ErrorGenerating \o <<SP, "query:", SP, e>>
ErrorGeneratingCombinedQuery(e) == ErrorGenerating \o <<SP, "combined", SP, "query:", SP, e>>

\* What the remote model does with one prompt: generate_content raises, the
\* response has no text (response.text raises), or the response carries a
\* text. A text comes with the script it is when read as Python.
LlmRaises == [kind |-> "raise"]
LlmBlocked == [kind |-> "blocked"]
LlmText(text, script) == [kind |-> "text", text |-> text, script |-> script]

\* ', '.join(columns) raises TypeError on a column name that is not a str
Joinable(schema) ==
    \A e \in schema : \A i \in DOMAIN e.columns : e.columns[i].kind = "str"

\* A generator without the handler of lines 165 and 235
AskModel_Propagates(llm, error_string) ==
    IF llm.kind = "text"
    THEN [escaped |-> "none", model_calls |-> 1,
          ret |-> clean_query_output(StrStrip(llm.text)), script |-> llm.script]
    ELSE [escaped |-> "Exception", model_calls |-> 1, ret |-> <<>>, script |-> <<>>]

\* lines 157-166 and 227-236: one call of the model inside try; the text is
\* stripped and sanitized; any Exception becomes the returned string
AskModel(llm, error_string) ==
    IF llm.kind = "text"
    THEN [escaped |-> "none", model_calls |-> 1,
          ret |-> clean_query_output(StrStrip(llm.text)), script |-> llm.script]
    ELSE [escaped |-> "none", model_calls |-> 1,
          ret |-> error_string, script |-> <<>>]

NoAnswer(exc) == [escaped |-> exc, model_calls |-> 0, ret |-> <<>>, script |-> <<>>]

\* lines 113-115: get_db_connection() resolves by the configuration's type,
\* then read_excel runs on what it returned, outside any try
ReadForPrompt(cfg, ss, env) ==
    LET excel_path == get_db_connection(cfg, ss, env, 0)
    IN CASE excel_path.kind = "path" ->
              [raised |-> env.file # "ok", opened |-> 0, reads |-> 1]
         [] excel_path.kind = "connection" ->
              [raised |-> TRUE, opened |-> 1, reads |-> 0]
         [] OTHER -> [raised |-> TRUE, opened |-> 0, reads |-> 0]

generate_sql_query(schema, db_type, cfg, ss, env, llm) ==
    IF ~Joinable(schema)
    THEN [gen |-> NoAnswer("TypeError"), opened |-> 0, reads |-> 0]
    ELSE IF db_type = "mysql"
    THEN [gen |-> AskModel(llm, ErrorGeneratingQuery("e")), opened |-> 0, reads |-> 0]
    ELSE LET loaded == ReadForPrompt(cfg, ss, env)
         IN IF loaded.raised
            THEN [gen |-> NoAnswer("ReadError"),
                  opened |-> loaded.opened, reads |-> loaded.reads]
            ELSE [gen |-> AskModel(llm, ErrorGeneratingQuery("e")),
                  opened |-> loaded.opened, reads |-> loaded.reads]

generate_combined_query(schema, llm) ==
    IF ~Joinable(schema.mysql) \/ ~Joinable(schema.excel)
    THEN [gen |-> NoAnswer("TypeError"), opened |-> 0, reads |-> 0]
    ELSE [gen |-> AskModel(llm, ErrorGeneratingCombinedQuery("e")),
          opened |-> 0, reads |-> 0]

\* main_app.py line 256: "Error" in query
ContainsError(query) == \E i \in DOMAIN query : query[i] = ERROR

----------------------------------------------------------------------------
(* The schema cache over a session: calls of get_database_schema between   *)
(* connects, radio changes and changes of the live sources                 *)

SchemaMySQLInputs ==
    {[host |-> <<h>>, user |-> <<"u">>, password |-> <<"p">>, database |-> <<"shop">>,
      port |-> 3306] : h \in {"h1", "h2"}}

SchemaExcelInputs ==
    {<<"a", SL, "book", ".xlsx">>, <<"b", SL, "book", ".xlsx">>, <<"a", SL, "dates", ".xlsx">>}

\* The connectivity-check service answers or not; the validators' verdict
\* does not enter the configuration
SchemaConnectEnvs == {e \in Envs : e.mysql /\ e.file = "ok"}

\* schema.json as an earlier session may have left it
InitialFiles ==
    {FileAbsent, FileCorrupt,
     PersistedRecord(<<"shop">>, "mysql", {Entry("old", <<PyStr(<<"x">>)>>)}),
     PersistedRecord(<<"book", ".xlsx">>, "excel", {Entry("Old", <<PyStr(<<"y">>)>>)})}

LastCall(calls) == IF calls = <<>> THEN <<>> ELSE <<calls[Len(calls)]>>

\* The worlds that make a difference to one call: none when the record
\* matches; otherwise whether the server accepts the connection and which
\* DESCRIBE fails, or what is found at the workbook's path
Quiet == [api |-> TRUE, mysql |-> TRUE, file |-> "ok"]
CallWorlds(db_source, file) ==
    LET db_config == get_db_config(current_db_config, session_state)
        probe == get_database_schema(db_source, current_db_config, session_state,
                                     file, Quiet, live_rev, 0)
    IN IF ~probe.introspected THEN {[env |-> Quiet, fail_at |-> 0]}
       ELSE IF probe.call.db_type = "mysql"
            THEN {[env |-> [Quiet EXCEPT !.mysql = FALSE], fail_at |-> 0]}
                 \cup {[env |-> Quiet, fail_at |-> k] :
                          k \in {n \in 0..MaxTables :
                                    n <= Len(LiveTables(db_config.mysql, live_rev))}}
            ELSE IF db_config.type = "mysql"
                 THEN {[env |-> [Quiet EXCEPT !.mysql = up], fail_at |-> 0] : up \in BOOLEAN}
                 ELSE {[env |-> [Quiet EXCEPT !.file = f], fail_at |-> 0] : f \in FileStates}

\* A get_database_schema() call without argument: db_config.py line 73
\* (under a "mysql" configuration), main_app.py lines 238 and 245 (radio not
\* on Combined)
GetDatabaseSchema ==
    /\ session_state.db_connected
    /\ \/ get_db_config(current_db_config, session_state).type = "mysql"
       \/ session_state.selected_db_type # "combined"
    /\ \E w \in CallWorlds("default", schema_file) :
          LET r == get_database_schema("default", current_db_config, session_state,
                                       schema_file, w.env, live_rev, w.fail_at)
          IN /\ schema_file' = r.file
             /\ sc_calls' = LastCall(sc_calls) \o <<r>>
    /\ UNCHANGED <<cleanVars, sessionVars, ex, live_rev, rq, api, race, sessions>>

\* get_combined_schema under the Combined radio (main_app.py lines 225 and
\* 245): the "mysql" call, then the "excel" call on the file the first left;
\* an exception of the first call ends the function
GetCombinedSchema ==
    /\ session_state.db_connected
    /\ session_state.selected_db_type = "combined"
    /\ \E w1 \in CallWorlds("mysql", schema_file) :
          LET m == get_database_schema("mysql", current_db_config, session_state,
                                       schema_file, w1.env, live_rev, w1.fail_at)
          IN IF m.raised
             THEN /\ schema_file' = m.file
                  /\ sc_calls' = LastCall(sc_calls) \o <<m>>
             ELSE \E w2 \in CallWorlds("excel", m.file) :
                     LET e == get_database_schema("excel", current_db_config,
                                                  session_state, m.file, w2.env,
                                                  live_rev, w2.fail_at)
                     IN /\ schema_file' = e.file
                        /\ sc_calls' = LastCall(sc_calls) \o <<m, e>>
    /\ UNCHANGED <<cleanVars, sessionVars, ex, live_rev, rq, api, race, sessions>>

\* A table is altered on the server, a header is added to the workbook
SourceChanges ==
    /\ live_rev < MaxRev
    /\ live_rev' = live_rev + 1
    /\ UNCHANGED <<cleanVars, sessionVars, ex, schema_file, sc_calls, rq, api, race, sessions>>

InitSchema ==
    /\ cq_input = <<>>
    /\ cq_outputs = <<>>
    /\ current_db_config = InitialConfig
    /\ session_state = InitialSession
    /\ last_connect = NoConnect
    /\ ex = NoCall
    /\ schema_file \in InitialFiles
    /\ live_rev = 0
    /\ sc_calls = <<>>
    /\ rq = NoRequest
    /\ api = NoApiCall
    /\ race = NoRace
    /\ sessions = NoSessions

\* A session interaction between two schema calls
KeepLastCall ==
    /\ sc_calls' = LastCall(sc_calls)
    /\ UNCHANGED <<cleanVars, ex, schema_file, live_rev, rq, api, race, sessions>>

NextSchema ==
    \/ \E t \in DbTypes : SelectDbType(t) /\ KeepLastCall
    \/ \E p \in SchemaMySQLInputs, env \in SchemaConnectEnvs :
          ClickConnectMySQL(p, env) /\ KeepLastCall
    \/ \E f \in SchemaExcelInputs, env \in SchemaConnectEnvs :
          ClickConnectExcel(f, env) /\ KeepLastCall
    \/ \E p \in SchemaMySQLInputs, f \in SchemaExcelInputs, env \in SchemaConnectEnvs :
          ClickConnectBoth(p, f, env) /\ KeepLastCall
    \/ GetDatabaseSchema
    \/ GetCombinedSchema
    \/ SourceChanges

SpecSchema == InitSchema /\ [][NextSchema]_vars

----------------------------------------------------------------------------
(* main_app.py lines 205-267: one run of the page of a connected session   *)

\* lines 224-238 and line 245: get_combined_schema() under the Combined
\* radio, otherwise get_database_schema() without argument
PageSchema(cfg, ss, file, env, rev) ==
    IF ss.selected_db_type = "combined"
    THEN get_combined_schema(cfg, ss, file, env, rev, 0)
    ELSE LET r == get_database_schema("default", cfg, ss, file, env, rev, 0)
         IN [raised |-> r.raised, calls |-> <<r>>, file |-> r.file, ret |-> r.ret]

\* lines 208-216: the freshness check of the active kind
Freshness(cfg, ss, file, env, rev) ==
    IF get_db_config(cfg, ss).type = "mysql"
    THEN is_any_mysql_table_updated(cfg, ss, file, env, rev, 0)
    ELSE LET u == is_excel_updated(ss, get_db_config(cfg, ss).excel.file_path, env, rev)
         IN [ret |-> u.ret, ss |-> u.ss, file |-> file, calls |-> <<>>,
             opened |-> 0, closed |-> 0, caught |-> FALSE]

\* lines 244-259: the schema for the prompt, the test for an empty schema,
\* the generator of the selected kind
GenerateFrom(sch, cfg, ss, env, llm) ==
    LET nothing == [gen |-> NoAnswer("none"), opened |-> 0, reads |-> 0]
    IN IF sch.raised
       THEN [stage |-> "schema", sch |-> sch, found |-> FALSE, g |-> nothing]
       ELSE IF ss.selected_db_type # "combined" /\ sch.ret = {}
       THEN [stage |-> "no_schema", sch |-> sch, found |-> FALSE, g |-> nothing]
       ELSE [stage |-> "generate", sch |-> sch, found |-> TRUE,
             g |-> IF ss.selected_db_type = "combined"
                   THEN generate_combined_query(sch.ret, llm)
                   ELSE generate_sql_query(sch.ret, ss.selected_db_type,
                                           cfg, ss, env, llm)]

Generate(cfg, ss, file, env, rev, llm) ==
    GenerateFrom(PageSchema(cfg, ss, file, env, rev), cfg, ss, env, llm)

\* The workbook pd.read_excel loads from the configured path
WorkbookAt(cfg, ss, rev) ==
    LET sheets == LiveSheets(NormalizePath(get_db_config(cfg, ss).excel.file_path), rev)
    IN [i \in DOMAIN sheets |-> <<sheets[i].name>>]

RequestDb == [fail_at |-> 0, fetch_ok |-> TRUE, value |-> PyInt(5)]

\* One run of the page: the freshness check, the schema expander, and when
\* the query button was pressed its handler. An exception that leaves a step
\* ends the run.
PageRun(pressed, env, llm) ==
    /\ session_state.db_connected
    /\ \E fresh \in {Freshness(current_db_config, session_state, schema_file, env, live_rev)} :
       \E explore \in {PageSchema(current_db_config, fresh.ss, fresh.file, env, live_rev)} :
       \E request \in {Generate(current_db_config, fresh.ss, explore.file, env, live_rev, llm)} :
          LET handled == pressed /\ ~explore.raised
              calls == fresh.calls \o explore.calls
                           \o (IF handled THEN request.sch.calls ELSE <<>>)
              query == request.g.gen.ret
              executes == /\ handled
                          /\ request.stage = "generate"
                          /\ request.g.gen.escaped = "none"
                          /\ ~ContainsError(query)
          IN /\ session_state' = fresh.ss
             /\ schema_file' = IF handled THEN request.sch.file ELSE explore.file
             /\ sc_calls' = LastCall(sc_calls) \o calls
             /\ rq' = [stage |-> IF explore.raised THEN "explore"
                                 ELSE IF ~pressed THEN "shown"
                                 ELSE IF request.stage # "generate" THEN request.stage
                                 ELSE IF request.g.gen.escaped # "none" THEN "generate"
                                 ELSE IF ContainsError(query) THEN "gen_error"
                                 ELSE "executed",
                       pressed |-> pressed,
                       escaped |-> IF explore.raised THEN "TypeError"
                                   ELSE IF ~pressed THEN "none"
                                   ELSE IF request.stage = "schema" THEN "TypeError"
                                   ELSE request.g.gen.escaped,
                       world |-> [mysql |-> env.mysql, file |-> env.file],
                       schema_found |-> handled /\ request.found,
                       generated |-> handled /\ request.stage = "generate",
                       asked |-> IF handled /\ request.g.gen.model_calls > 0
                                 THEN llm.kind ELSE "none",
                       gen |-> IF handled THEN request.g.gen ELSE NoAnswer("none"),
                       opened |-> fresh.opened + (IF handled THEN request.g.opened ELSE 0),
                       closed |-> fresh.closed,
                       reads |-> IF handled THEN request.g.reads ELSE 0]
             /\ ex' = IF executes
                      THEN ExecCall(query, request.g.gen.script, env.mysql, env.file,
                                    RequestDb,
                                    WorkbookAt(current_db_config, session_state, live_rev))
                      ELSE NoCall
    /\ UNCHANGED <<cleanVars, current_db_config, last_connect, live_rev, api, race, sessions>>

\* What the user connects to and what the model answers in these runs
RequestExcelInputs == {<<"b", SL, "book", ".xlsx">>, <<"a", SL, "book", ".xlsx">>}

RequestTexts == {<<"a">>, <<SP, BT, "a", BT>>, <<"a", SP, ERROR>>}

\* query_engine.py line 141 (tabular prompt): "store the result in a
\* variable called 'result'"; line 218 (combined prompt): "Always assign your
\* final result to a DataFrame called `result_df`"
PromptResultName(selected_db_type) ==
    IF selected_db_type = "combined" THEN Name("result_df") ELSE Name("result")

\* The artifact that does what the prompt of a kind asks for: the first
\* sheet's table is the final answer
FollowsPrompt(selected_db_type) ==
    <<[op |-> "assign", target |-> PromptResultName(selected_db_type),
       rhs |-> [expr |-> "name", name |-> DfAlias(0)]]>>

RequestScripts ==
    {FollowsPrompt("excel"), FollowsPrompt("combined"),
     <<[op |-> "print", scope |-> "top", args |-> <<PyStr(<<"a">>)>>]>>}

\* Every script comes as the plain text; the texts the sanitizer or the
\* "Error" test act on come with the script of the tabular prompt
RequestLlm ==
    {LlmRaises, LlmBlocked}
    \cup {LlmText(<<"a">>, sc) : sc \in RequestScripts}
    \cup {LlmText(t, FollowsPrompt("excel")) : t \in RequestTexts}

RequestWorlds == {e \in Envs : e.api}

InitRequest ==
    /\ cq_input = <<>>
    /\ cq_outputs = <<>>
    /\ current_db_config = InitialConfig
    /\ session_state = InitialSession
    /\ last_connect = NoConnect
    /\ ex = NoCall
    /\ schema_file = FileAbsent
    /\ live_rev = 0
    /\ sc_calls = <<>>
    /\ rq = NoRequest
    /\ api = NoApiCall
    /\ race = NoRace
    /\ sessions = NoSessions

\* A widget of the connection form is used: a new run, no query yet
NewPage ==
    /\ rq' = NoRequest
    /\ ex' = NoCall
    /\ sc_calls' = LastCall(sc_calls)
    /\ UNCHANGED <<cleanVars, schema_file, live_rev, api, race, sessions>>

NextRequest ==
    \/ \E t \in DbTypes : SelectDbType(t) /\ NewPage
    \/ \E p \in MySQLInputs, env \in SchemaConnectEnvs : ClickConnectMySQL(p, env) /\ NewPage
    \/ \E f \in RequestExcelInputs, env \in SchemaConnectEnvs :
          ClickConnectExcel(f, env) /\ NewPage
    \/ \E p \in MySQLInputs, f \in RequestExcelInputs, env \in SchemaConnectEnvs :
          ClickConnectBoth(p, f, env) /\ NewPage
    \/ \E pressed \in BOOLEAN, env \in RequestWorlds :
          \E llm \in (IF pressed THEN RequestLlm ELSE {LlmRaises}) :
             PageRun(pressed, env, llm)

SpecRequest == InitRequest /\ [][NextRequest]_vars

----------------------------------------------------------------------------
(* The connectivity-check service and the resolver, one call at a time     *)

\* Every mapping from some of the keys to a value
ParamsOver(keys, values) ==
    UNION {[present -> values] : present \in SUBSET keys}

TextValues == {<<>>, <<"x">>}

PathValues ==
    {<<>>, <<"a", SL, "book", ".xlsx">>, <<"a", SL, "old", ".xls">>,
     <<"a", SL, "notes", ".txt">>, <<"a", SL, "data", ".csv">>, <<"a", SL, "dir">>}

UrlValues == {<<>>, <<"mongodb", "://", "h">>, <<"http", "://", "h">>}

ParamsFor(data_source) ==
    CASE data_source = "mysql" -> ParamsOver(MySQLRequired, TextValues)
      [] data_source = "sqlserver" -> ParamsOver({"server", "database"}, TextValues)
      [] data_source = "mongodb" ->
            {u @@ d : u \in ParamsOver({"mongo_url"}, UrlValues),
                      d \in ParamsOver({"database"}, {<<"x">>})}
      [] data_source \in {"excel", "csv"} -> ParamsOver({"file_path"}, PathValues)
      [] OTHER -> ParamsOver({"credentials_file", "sheet_id"}, {<<"x">>})

\* The worlds that make a difference to a validator
Calm == [api |-> TRUE, mysql |-> TRUE, mysql_error |-> "none", file |-> "ok",
         remote |-> "ok"]
MySQLWorlds ==
    {Calm} \cup {[Calm EXCEPT !.mysql = FALSE, !.mysql_error = e] :
                    e \in {"unreachable", "denied", "db_error", "other"}}
WorldsFor(data_source) ==
    CASE data_source = "mysql" -> MySQLWorlds
      [] data_source \in {"sqlserver", "mongodb"} ->
            {[Calm EXCEPT !.remote = r] : r \in RemoteStates}
      [] data_source \in {"excel", "csv"} ->
            {[Calm EXCEPT !.file = f] : f \in ApiFileStates}
      [] data_source = "google_sheets" ->
            {[Calm EXCEPT !.file = f, !.remote = r] :
                f \in FileStates, r \in {"ok", "not_found", "denied", "other"}}
      [] OTHER -> {Calm}

DataSourceTags == SUPPORTED_DATA_SOURCES \cup {"oracle"}

ApiCall(entry, data_source, params, env, did) ==
    [entry |-> entry, data_source |-> data_source, params |-> params,
     world |-> [mysql |-> env.mysql, mysql_error |-> env.mysql_error,
                file |-> env.file, remote |-> env.remote],
     did |-> did]

Untouched ==
    UNCHANGED <<cleanVars, sessionVars, ex, schemaVars, rq, race, sessions>>

\* POST /connect with a data_source tag and a parameter mapping
PostConnect(data_source, params, env) ==
    /\ api' = ApiCall("/connect", data_source, params, env,
                      connect_database(data_source, params, env))
    /\ Untouched

\* POST /connect/excel with a file path
PostConnectExcel(file_path, env) ==
    /\ api' = ApiCall("/connect/excel", "excel", [file_path |-> file_path], env,
                      connect_excel_endpoint(file_path, env))
    /\ Untouched

\* POST /connect/mysql with complete parameters
PostConnectMySQL(request, env) ==
    /\ api' = ApiCall("/connect/mysql", "mysql", request, env,
                      connect_mysql_endpoint(request, env))
    /\ Untouched

\* get_db_connection under a stored configuration of one kind. The stored
\* path is whatever the form sent: update_excel_config stores it whenever
\* the service answered.
ConfigOf(kind, params) ==
    IF kind = "mysql"
    THEN [InitialConfig EXCEPT !.type = "mysql",
                               !.mysql = [host |-> params.host, user |-> params.username,
                                          password |-> params.password,
                                          database |-> params.database, port |-> 3306]]
    ELSE [InitialConfig EXCEPT !.type = "excel", !.excel = [file_path |-> params.file_path]]

ResolveConnection(kind, params, env) ==
    /\ api' = ApiCall("get_db_connection", kind, params, env,
                      [handle |-> get_db_connection(ConfigOf(kind, params), InitialSession,
                                                    env, 0)])
    /\ Untouched

\* is_any_mysql_table_updated under a stored relational configuration,
\* called as the page calls it before anything is cached
CheckMySQLFreshness(params, env) ==
    /\ api' = ApiCall("is_any_mysql_table_updated", "mysql", params, env,
                      LET u == is_any_mysql_table_updated(ConfigOf("mysql", params),
                                                          InitialSession, FileAbsent, env, 0, 0)
                      IN [ret |-> u.ret, caught |-> u.caught,
                          opened |-> u.opened, closed |-> u.closed])
    /\ Untouched

CompleteMySQL == {p \in ParamsFor("mysql") : \A k \in MySQLRequired : Present(p, k)}
StoredPaths == {p \in ParamsFor("excel") : Has(p, "file_path")}

InitApi ==
    /\ cq_input = <<>>
    /\ cq_outputs = <<>>
    /\ current_db_config = InitialConfig
    /\ session_state = InitialSession
    /\ last_connect = NoConnect
    /\ ex = NoCall
    /\ schema_file = FileAbsent
    /\ live_rev = 0
    /\ sc_calls = <<>>
    /\ rq = NoRequest
    /\ api = NoApiCall
    /\ race = NoRace
    /\ sessions = NoSessions

NextApi ==
    \/ \E d \in DataSourceTags : \E params \in ParamsFor(d), env \in WorldsFor(d) :
          PostConnect(d, params, env)
    \/ \E p \in StoredPaths, env \in WorldsFor("excel") :
          p.file_path # <<>> /\ PostConnectExcel(p.file_path, env)
    \/ \E request \in CompleteMySQL, env \in MySQLWorlds : PostConnectMySQL(request, env)
    \/ \E request \in CompleteMySQL, env \in MySQLWorlds :
          ResolveConnection("mysql", request, env)
    \/ \E p \in StoredPaths, env \in WorldsFor("excel") :
          ResolveConnection("excel", p, env)
    \/ \E request \in CompleteMySQL, env \in MySQLWorlds :
          CheckMySQLFreshness(request, env)

SpecApi == InitApi /\ [][NextApi]_vars

----------------------------------------------------------------------------
(* Two calls of get_database_schema in flight: Streamlit runs every session *)
(* in a thread of its own, and all of them use the one schema.json          *)

Callers == {1, 2}

\* The bytes of schema.json in pieces: the two tags, one piece per entry of
\* the schema, the closing brace
RECURSIVE SeqOfSet(_)
SeqOfSet(S) ==
    IF S = {} THEN <<>>
    ELSE LET x == CHOOSE y \in S : TRUE IN <<x>> \o SeqOfSet(S \ {x})

Pieces(record) ==
    <<[piece |-> "tags", database |-> record.database, db_type |-> record.db_type]>>
    \o [i \in 1..Cardinality(record.schema) |->
           [piece |-> "entry", entry |-> SeqOfSet(record.schema)[i]]]
    \o <<[piece |-> "end"]>>

\* json.load: the bytes are one whole record, or the load raises
WellFormed(bytes) ==
    /\ Len(bytes) >= 2
    /\ bytes[1].piece = "tags"
    /\ bytes[Len(bytes)].piece = "end"
    /\ \A i \in 2..(Len(bytes) - 1) : bytes[i].piece = "entry"
json_load(file) ==
    IF ~file.exists THEN FileAbsent
    ELSE IF ~WellFormed(file.bytes) THEN FileCorrupt
    ELSE [state |-> "json", database |-> file.bytes[1].database,
          db_type |-> file.bytes[1].db_type,
          schema |-> {file.bytes[i].entry : i \in 2..(Len(file.bytes) - 1)}]

\* write(2) at offset 0 of a file another descriptor may have filled
Overwrite(old, new) == new \o SubSeq(old, Len(new) + 1, Len(old))

\* The configurations a Combined connect leaves (type "excel") and the
\* record a call for db_source computes from the live sources
RaceConfigs ==
    {[InitialConfig EXCEPT !.type = "excel",
                           !.mysql = [host |-> <<h>>, user |-> <<"u">>,
                                      password |-> <<"p">>, database |-> <<"shop">>,
                                      port |-> 3306],
                           !.excel = [file_path |-> f]] :
        h \in {"h1", "h2"}, f \in {<<"a", SL, "book", ".xlsx">>, <<"b", SL, "book", ".xlsx">>}}
RaceWorld == [api |-> TRUE, mysql |-> TRUE, file |-> "ok"]
CurrentDb(cfg, db_type) ==
    IF db_type = "mysql" THEN cfg.mysql.database ELSE Basename(cfg.excel.file_path)
LiveSchema(cfg, db_type) ==
    IF db_type = "mysql"
    THEN IntrospectMySQL(cfg, InitialSession, RaceWorld, 0, 0).schema
    ELSE IntrospectExcel(cfg, InitialSession, RaceWorld, 0).schema
OwnRecord(cfg, db_type) ==
    PersistedRecord(CurrentDb(cfg, db_type), db_type, LiveSchema(cfg, db_type))

InitialRaceFiles ==
    {[exists |-> FALSE, bytes |-> <<>>]}
    \cup {[exists |-> TRUE, bytes |-> Pieces(OwnRecord(c, "excel"))] : c \in RaceConfigs}

\* lines 19-26: the file is there and loads to a record with both tags of
\* the call: the call returns the record's schema; otherwise it goes on
ReadCache(p) ==
    /\ race.pc[p] = "start"
    /\ LET record == json_load(race.file)
           db_type == race.src[p]
       IN IF CacheHit(record, CurrentDb(race.cfg, db_type), db_type)
          THEN race' = [race EXCEPT !.pc[p] = "done", !.hit[p] = TRUE,
                                    !.ret[p] = JsonDecodeSchema(record.schema)]
          ELSE race' = [race EXCEPT !.pc[p] = "introspect"]
    /\ UNCHANGED <<cleanVars, sessionVars, ex, schemaVars, rq, api, sessions>>

\* lines 28-59
Introspect(p) ==
    /\ race.pc[p] = "introspect"
    /\ race' = [race EXCEPT !.pc[p] = "open",
                            !.schema[p] = LiveSchema(race.cfg, race.src[p])]
    /\ UNCHANGED <<cleanVars, sessionVars, ex, schemaVars, rq, api, sessions>>

\* line 61: open(schema_file, "w") truncates
OpenForWrite(p) ==
    /\ race.pc[p] = "open"
    /\ race' = [race EXCEPT !.pc[p] = "write", !.file = [exists |-> TRUE, bytes |-> <<>>]]
    /\ UNCHANGED <<cleanVars, sessionVars, ex, schemaVars, rq, api, sessions>>

\* lines 62-68: json.dump fills the buffer, leaving the with block flushes
\* it at this descriptor's offset 0; the call returns its schema
WriteAndClose(p) ==
    /\ race.pc[p] = "write"
    /\ LET mine == Pieces(PersistedRecord(CurrentDb(race.cfg, race.src[p]), race.src[p],
                                          race.schema[p]))
       IN race' = [race EXCEPT !.pc[p] = "done", !.ret[p] = race.schema[p],
                               !.wrote[p] = mine,
                               !.file = [exists |-> TRUE,
                                         bytes |-> Overwrite(race.file.bytes, mine)]]
    /\ UNCHANGED <<cleanVars, sessionVars, ex, schemaVars, rq, api, sessions>>

InitRace ==
    /\ cq_input = <<>>
    /\ cq_outputs = <<>>
    /\ current_db_config = InitialConfig
    /\ session_state = InitialSession
    /\ last_connect = NoConnect
    /\ ex = NoCall
    /\ schema_file = FileAbsent
    /\ live_rev = 0
    /\ sc_calls = <<>>
    /\ rq = NoRequest
    /\ api = NoApiCall
    /\ sessions = NoSessions
    /\ \E cfg \in RaceConfigs, file \in InitialRaceFiles,
          src \in [Callers -> {"mysql", "excel"}] :
          race = [cfg |-> cfg, file |-> file, src |-> src,
                  pc |-> [p \in Callers |-> "start"],
                  hit |-> [p \in Callers |-> FALSE],
                  schema |-> [p \in Callers |-> {}],
                  ret |-> [p \in Callers |-> {}],
                  wrote |-> [p \in Callers |-> <<>>]]

NextRace ==
    \/ \E p \in Callers : ReadCache(p)
    \/ \E p \in Callers : Introspect(p)
    \/ \E p \in Callers : OpenForWrite(p)
    \/ \E p \in Callers : WriteAndClose(p)

SpecRace == InitRace /\ [][NextRace]_vars

----------------------------------------------------------------------------
(* Two user sessions of one process: each has its own st.session_state;    *)
(* db_utils.current_db_config is the one record of the imported module     *)

SessionIds == {1, 2}

\* What is left alone by a step of one session's connection form
SessionFrame ==
    UNCHANGED <<cleanVars, session_state, last_connect, ex, schemaVars, rq, api, race>>

\* main_app.py lines 147-149 in session s
SessionSelectDbType(s, t) ==
    /\ t # sessions[s].selected_db_type
    /\ sessions' = [sessions EXCEPT ![s].selected_db_type = t]
    /\ UNCHANGED current_db_config
    /\ SessionFrame

\* main_app.py lines 161-167 in session s
SessionConnectMySQL(s, params, env) ==
    /\ sessions[s].selected_db_type = "mysql"
    /\ LET r == update_mysql_config(current_db_config, sessions[s], params, env)
       IN /\ current_db_config' = r.cfg
          /\ sessions' = [sessions EXCEPT ![s] =
                IF r.ok THEN [r.ss EXCEPT !.mysql_connected = TRUE] ELSE r.ss]
    /\ SessionFrame

\* main_app.py lines 171-177 in session s
SessionConnectExcel(s, file_path, env) ==
    /\ sessions[s].selected_db_type = "excel"
    /\ LET r == update_excel_config(current_db_config, sessions[s], file_path, env)
       IN /\ current_db_config' = r.cfg
          /\ sessions' = [sessions EXCEPT ![s] =
                IF r.ok THEN [r.ss EXCEPT !.excel_connected = TRUE] ELSE r.ss]
    /\ SessionFrame

\* main_app.py lines 192-201 in session s
SessionConnectBoth(s, params, file_path, env) ==
    /\ sessions[s].selected_db_type = "combined"
    /\ LET m == update_mysql_config(current_db_config, sessions[s], params, env)
           e == update_excel_config(m.cfg, m.ss, file_path, env)
       IN /\ current_db_config' = e.cfg
          /\ sessions' = [sessions EXCEPT ![s] =
                IF m.ok /\ e.ok
                THEN [e.ss EXCEPT !.mysql_connected = TRUE,
                                  !.excel_connected = TRUE,
                                  !.db_connected = TRUE]
                ELSE e.ss]
    /\ SessionFrame

InitSessions ==
    /\ cq_input = <<>>
    /\ cq_outputs = <<>>
    /\ current_db_config = InitialConfig
    /\ session_state = InitialSession
    /\ last_connect = NoConnect
    /\ ex = NoCall
    /\ schema_file = FileAbsent
    /\ live_rev = 0
    /\ sc_calls = <<>>
    /\ rq = NoRequest
    /\ api = NoApiCall
    /\ race = NoRace
    /\ sessions = [s \in SessionIds |-> InitialSession]

NextSessions ==
    \/ \E s \in SessionIds, t \in DbTypes : SessionSelectDbType(s, t)
    \/ \E s \in SessionIds, p \in SchemaMySQLInputs, env \in SchemaConnectEnvs :
          SessionConnectMySQL(s, p, env)
    \/ \E s \in SessionIds, f \in RequestExcelInputs, env \in SchemaConnectEnvs :
          SessionConnectExcel(s, f, env)
    \/ \E s \in SessionIds, p \in SchemaMySQLInputs, f \in RequestExcelInputs,
          env \in SchemaConnectEnvs :
          SessionConnectBoth(s, p, f, env)

SpecSessions == InitSessions /\ [][NextSessions]_vars

----------------------------------------------------------------------------
(* Generated texts: concatenations of fragments a language model emits *)

Fragments ==
    {FenceSql, FencePython, Fence, <<STAR, STAR>>, <<STAR>>, <<BT>>, <<HASH>>,
     <<NL>>, <<SP>>, <<"a">>}

RECURSIVE TextsOf(_)
TextsOf(n) ==
    IF n = 0 THEN {<<>>}
    ELSE LET shorter == TextsOf(n - 1)
         IN shorter \cup {t \o f : t \in shorter, f \in Fragments}

GeneratedTexts == TextsOf(MaxFrags)

InitClean ==
    /\ cq_input \in GeneratedTexts
    /\ cq_outputs = <<>>
    /\ current_db_config = InitialConfig
    /\ session_state = InitialSession
    /\ last_connect = NoConnect
    /\ ex = NoCall
    /\ schema_file = FileAbsent
    /\ live_rev = 0
    /\ sc_calls = <<>>
    /\ rq = NoRequest
    /\ api = NoApiCall
    /\ race = NoRace
    /\ sessions = NoSessions

\* One more pass of the sanitizer over the text: the first pass takes the
\* generated text, a later pass takes the previous pass's result.
CleanPass ==
    /\ Len(cq_outputs) < MaxPasses
    /\ LET arg == IF cq_outputs = <<>> THEN cq_input ELSE cq_outputs[Len(cq_outputs)]
       IN cq_outputs' = Append(cq_outputs, clean_query_output(arg))
    /\ UNCHANGED <<cq_input, sessionVars, ex, schemaVars, rq, api, race, sessions>>

NextClean == CleanPass

SpecClean == InitClean /\ [][NextClean]_vars

----------------------------------------------------------------------------
(* C1: sanitization is idempotent: sanitizing an already sanitized text     *)
(* returns it unchanged, clean(clean(x)) = clean(x), for every text x.      *)
C1_Idempotent ==
    Len(cq_outputs) >= 2 => cq_outputs[2] = cq_outputs[1]

----------------------------------------------------------------------------
(* Executor claims: what the formulas read from the last call *)

RanTabular == ex.called /\ ex.path = "excel" /\ ex.runs = 1
RanWithoutFault == RanTabular /\ ex.fault = "none"
ResultSlot == ex.ns_end[Name("result")]
PrintBuffer == ex.ns_end[Name("print_output")].items
CapturedLines == [i \in DOMAIN PrintBuffer |-> [output |-> PrintBuffer[i]]]

IsPrintOnly(script) ==
    Len(script) >= 1 /\ \A i \in DOMAIN script : script[i].op = "print"

(* C5: an artifact that makes n >= 1 print calls and never assigns the     *)
(* result variable returns exactly n one-column rows, the i-th holding the *)
(* text of the i-th print call (its arguments joined by one space).        *)
C5_PrintOnly ==
    (RanTabular /\ IsPrintOnly(ex.script)) =>
        ex.ret =
            ReturnRows([i \in DOMAIN ex.script |->
                          [output |-> PyStr(StrJoin(StrOfAll(ex.script[i].args), SP))]])

\* The statements of a SQL text, read off the positions of its separators
TrimmedText == StrStrip(ex.text)
Cuts == {0, Len(TrimmedText) + 1} \cup {i \in 1..Len(TrimmedText) : TrimmedText[i] = SEMI}
SegmentAfter(c) ==
    LET next == CHOOSE d \in Cuts : d > c /\ \A e \in Cuts : e > c => d <= e
    IN SubSeq(TrimmedText, c + 1, next - 1)
NonBlankStarts ==
    {c \in Cuts : c <= Len(TrimmedText)
                  /\ \E i \in DOMAIN SegmentAfter(c) : SegmentAfter(c)[i] \notin {SP, NL}}
IthStart(i) == CHOOSE c \in NonBlankStarts : Cardinality({d \in NonBlankStarts : d < c}) = i - 1
ExpectedCount ==
    IF ex.fail_at \in 1..Cardinality(NonBlankStarts) THEN ex.fail_at
    ELSE Cardinality(NonBlankStarts)

RanRelational == ex.called /\ ex.path = "mysql" /\ ex.opened >= 1

(* C6: on the relational path the non-empty pieces of the artifact between *)
(* ';' are executed in textual order on one connection; the first failing  *)
(* statement is the last one executed and yields an error value; on        *)
(* success the rows returned are those of the last executed statement.     *)
C6_StatementOrder ==
    RanRelational =>
        /\ ex.opened = 1
        /\ ex.log = [i \in 1..ExpectedCount |-> SegmentAfter(IthStart(i))]
        /\ ex.fail_at \in 1..Cardinality(NonBlankStarts) => ex.ret.kind = "dict"
        /\ ex.ret.kind = "list" =>
              /\ ex.log # <<>>
              /\ Len(ex.ret.items) = 1
              /\ ex.ret.items[1].q = PyStr(ex.log[Len(ex.log)])

\* C6 witness: two different statements ran in order and the rows are the second one's
C6_Witness ==
    /\ RanRelational
    /\ Len(ex.log) = 2
    /\ ex.log[1] # ex.log[2]
    /\ ex.ret.kind = "list"
    /\ ex.ret.items[1].q = PyStr(ex.log[2])

(* C7: on every exit of the relational path (success, statement failure,   *)
(* fetch failure, no connection) a connection that was opened is closed    *)
(* exactly once before the call returns, and nothing is closed otherwise.  *)
C7_ConnectionReleased ==
    (ex.called /\ ex.path = "mysql") => ex.closed = ex.opened

\* C7 witness: a statement ran, fetchall failed, and the connection was closed once
C7_Witness ==
    /\ RanRelational
    /\ ex.log # <<>>
    /\ ~ex.fetch_ok
    /\ ex.ret.kind = "dict"
    /\ ex.closed = 1

(* C8: after a successful Combined connect (MySQL and Excel both answered  *)
(* "success") execute_sql_query runs the combined path: the artifact       *)
(* executes in a namespace that binds both conn and excel_data.            *)
C8_CombinedPath ==
    (/\ ex.called
     /\ ex.after = [button |-> "combined", validated |-> TRUE]
     /\ ex.selected = "combined"
     /\ ex.env.mysql
     /\ ex.env.file = "ok") =>
        /\ ex.path = "combined"
        /\ Name("conn") \in DOMAIN ex.ns_start
        /\ Name("excel_data") \in DOMAIN ex.ns_start

(* C9: in Combined mode, when the relational connection cannot be made and *)
(* the tabular load succeeds, execute_sql_query returns the error "Both    *)
(* MySQL and Excel connections are required for combined execution."       *)
C9_BothRequired ==
    (/\ ex.called
     /\ ex.after.button = "combined"
     /\ ex.selected = "combined"
     /\ ~ex.env.mysql
     /\ ex.env.file = "ok") =>
        ex.ret = ReturnError("error", BothRequired)

(* C10: execute_sql_query returns a sequence of row mappings or a mapping  *)
(* with the key 'error'; nothing the artifact raises leaves the call as an *)
(* exception, the result is never None, and the artifact runs at most once.*)
C10_ErrorsAreValues ==
    ex.called =>
        /\ ex.ret.kind \in {"list", "dict"}
        /\ ex.runs <= 1

----------------------------------------------------------------------------
(* C2: schema cache hit. When get_database_schema is called twice in a row *)
(* for the same source identity and kind, with no call in between and no   *)
(* change of the underlying source, the second call returns exactly the    *)
(* value the first call returned and does no live introspection: it opens  *)
(* no database connection and reads no Excel file.                         *)
SameSource(a, b) ==
    /\ a.call.db_type = b.call.db_type
    /\ a.call.current_db = b.call.current_db
    /\ a.call.source = b.call.source
    /\ a.call.rev = b.call.rev

----------------------------------------------------------------------------
(* C11: generator failure. When the remote model call raises,              *)
(* generate_sql_query and generate_combined_query return a string that     *)
(* starts with "Error generating" instead of propagating, and the model is *)
(* invoked at most once per generate call.                                 *)
C11_GeneratorFailure ==
    /\ rq.gen.model_calls <= 1
    /\ rq.asked \in {"raise", "blocked"}
          => /\ rq.gen.escaped = "none"
             /\ rq.gen.model_calls = 1
             /\ StartsWith(rq.gen.ret, ErrorGenerating)
             /\ rq.stage = "gen_error"

\* the combined generator met a raising model and returned its error string
C11_Witness ==
    /\ rq.asked = "raise"
    /\ session_state.selected_db_type = "combined"
    /\ rq.gen.ret = ErrorGeneratingCombinedQuery("e")

(* C12: propagation policy. In every step of a query request (schema       *)
(* retrieval, generation, execution) and for every source kind, a failure  *)
(* to reach or read the data source becomes a tagged error value and no    *)
(* exception escapes to the session; in particular generate_sql_query for  *)
(* the tabular kind does not raise when the Excel file is missing or       *)
(* unreadable.                                                             *)
TabularRequest ==
    /\ rq.pressed
    /\ session_state.selected_db_type = "excel"
    /\ get_db_config(current_db_config, session_state).type = "excel"

C12_NoEscape ==
    (TabularRequest /\ rq.world.file # "ok") => rq.escaped # "ReadError"

\* The binding of a name when the artifact starts executing
BoundAtStart(name) ==
    IF name \in DOMAIN ex.ns_start THEN ex.ns_start[name] ELSE [kind |-> "unbound"]

\* C19: when the artifact starts executing on the tabular path, each loaded
\* sheet i (in load order) is bound under df_i and under its sanitized name
\* (spaces and '-' replaced by '_'), both bindings being that sheet's table;
\* the full mapping is bound as excel_data, the result slot is empty and the
\* print buffer is empty; no sheet's binding holds another sheet's table or
\* a reserved binding.
C19_NamespaceBinding ==
    RanTabular =>
        /\ \A i \in DOMAIN ex.wb :
              /\ BoundAtStart(DfAlias(i - 1)) = Frame(ex.wb[i])
              /\ BoundAtStart(SafeName(ex.wb[i])) = Frame(ex.wb[i])
        /\ BoundAtStart(Name("excel_data")) = ExcelData(ex.wb)
        /\ BoundAtStart(Name("result")) = None
        /\ BoundAtStart(Name("print_output")) = EmptyList


----------------------------------------------------------------------------
(* Claims about the connectivity-check service and the resolver            *)

ExcelCheck == api.entry = "/connect" /\ api.data_source = "excel"

\* The stages of the tabular validation in their stated order, and the
\* failure of each one stated on the request and the world alone
ExcelStages == <<"parameter", "exists", "directory", "extension", "read">>
StageFails(i, params, world) ==
    CASE i = 1 -> ~Has(params, "file_path") \/ params.file_path = <<>>
      [] i = 2 -> world.file = "missing"
      [] i = 3 -> world.file = "directory"
      [] i = 4 -> Has(params, "file_path") /\ params.file_path # <<>>
                  /\ params.file_path[Len(params.file_path)] \notin {".xlsx", ".xls"}
      [] OTHER -> world.file # "ok"
StageMessages(i) ==
    CASE i = 1 -> {"Missing required parameter: file_path"}
      [] i = 2 -> {"File not found"}
      [] i = 3 -> {"Provided path is a directory, not a file"}
      [] i = 4 -> {"Unsupported file format. Please use .xlsx or .xls"}
      [] OTHER -> {"Failed to parse the Excel file", "ValueError while reading Excel",
                   "Error reading the Excel file"}
FailingStages(params, world) ==
    {i \in 1..Len(ExcelStages) : StageFails(i, params, world)}
FirstOf(S) == CHOOSE i \in S : \A j \in S : i <= j

\* C13: connect_excel reports the failure of the first failing stage in
\* the order missing/empty file_path, path not found, path is a directory,
\* unsupported extension, unreadable content; each stage has a message of
\* its own and no stage after the failing one is evaluated.
C13_ValidationOrder ==
    ExcelCheck =>
        LET failing == FailingStages(api.params, api.world)
        IN IF failing = {}
           THEN /\ api.did.body.status = "success"
                /\ api.did.stages = ExcelStages
           ELSE /\ api.did.body.status = "error"
                /\ api.did.body.message \in StageMessages(FirstOf(failing))
                /\ api.did.stages = SubSeq(ExcelStages, 1, FirstOf(failing))

\* A non-existent path ending in .txt reports 'File not found'
C13_Witness ==
    /\ ExcelCheck
    /\ Has(api.params, "file_path")
    /\ api.params.file_path = <<"a", SL, "notes", ".txt">>
    /\ api.world.file = "missing"
    /\ api.did.body.message = "File not found"
    /\ api.did.stages = <<"parameter", "exists">>

\* A call of a resolver entry point for a tabular source whose path has an
\* extension other than .xlsx and .xls
ResolverEntries == {"/connect", "/connect/excel", "get_db_connection"}
UnsupportedExtension ==
    /\ api.entry \in ResolverEntries
    /\ api.data_source = "excel"
    /\ Has(api.params, "file_path")
    /\ api.params.file_path # <<>>
    /\ api.params.file_path[Len(api.params.file_path)] \notin {".xlsx", ".xls"}
ResolutionFailed ==
    IF api.entry = "get_db_connection"
    THEN api.did.handle = None
    ELSE api.did.body.status # "success"
ContentReads ==
    IF api.entry = "get_db_connection" THEN 0 ELSE api.did.reads

\* C14: for every tabular config whose path has an unsupported extension,
\* resolving the source fails and no read of the file's content is
\* attempted, on connect_excel, on POST /connect/excel and on
\* get_db_connection.
C14_ExtensionBeforeRead ==
    UnsupportedExtension => ResolutionFailed /\ ContentReads = 0

\* A relational config with every required field present, resolved while
\* the host cannot be reached
UnreachableHost ==
    /\ api.entry \in {"/connect", "get_db_connection"}
    /\ api.data_source = "mysql"
    /\ \A k \in {"host", "username", "password", "database"} :
          Has(api.params, k) /\ api.params[k] # <<>>
    /\ ~api.world.mysql
    /\ api.world.mysql_error = "unreachable"

\* C15: for every relational config with all required fields present and
\* an unreachable host, connect_mysql returns a mapping with status
\* 'error' and get_db_connection returns no handle; the driver's exception
\* does not escape either of them.
C15_UnreachableHost ==
    UnreachableHost =>
        IF api.entry = "get_db_connection"
        THEN api.did.handle = None
        ELSE /\ ~api.did.raised
             /\ api.did.body.shape = "mapping"
             /\ api.did.body.status = "error"

C15_Witness ==
    /\ UnreachableHost
    /\ api.entry = "/connect"
    /\ api.did.body.message = "MySQL Connection Issue"
    /\ api.did.status_code = 200

\* The operations that open a connection or a client for their own use
KeepsItsHandle ==
    api.entry \in {"/connect", "/connect/mysql", "is_any_mysql_table_updated"}

\* C16: every connection or client opened by an operation that does not
\* hand the handle to its caller is closed before the operation returns,
\* on every exit path; the connectivity validators and
\* is_any_mysql_table_updated are among these operations.
C16_NoConnectionLeak ==
    KeepsItsHandle => api.did.opened = api.did.closed

\* C18: for every supported data_source tag and every parameter mapping,
\* the value the per-source validator returns (the body of POST /connect)
\* is a mapping with a status tag in {success, error, info} and a message,
\* on every path.
C18_ResponseShape ==
    (api.entry = "/connect" /\ api.data_source \in SUPPORTED_DATA_SOURCES)
        => /\ api.did.body.shape = "mapping"
           /\ api.did.body.status \in {"success", "error", "info"}
           /\ "message" \in DOMAIN api.did.body


----------------------------------------------------------------------------
(* Claims about the connect buttons                                        *)

\* Both checks of a Combined attempt answered "success"
BothChecksSucceeded(params, file_path, env) ==
    /\ Validated("mysql", params, env)
    /\ Validated("excel", [file_path |-> file_path], env)

\* C17: after a 'Connect to Both MySQL & Excel' attempt the session is
\* marked connected and the stored configuration is changed only if both
\* the MySQL check and the Excel check succeeded; if either fails, the
\* connected flag and the configuration are as before the attempt.
C17_CombinedConnect ==
    [][\A p \in MySQLInputs, f \in ExcelInputs, env \in Envs :
          (ClickConnectBoth(p, f, env) /\ ~BothChecksSucceeded(p, f, env))
             => /\ session_state'.db_connected = session_state.db_connected
                /\ current_db_config' = current_db_config]_vars

----------------------------------------------------------------------------
(* Claims about the combined pipeline                                      *)

\* A Combined page run whose artifact does what the combined prompt asks
\* and runs to its end
CombinedFollowsPrompt ==
    /\ rq.pressed
    /\ session_state.selected_db_type = "combined"
    /\ ex.called
    /\ ex.runs = 1
    /\ ex.fault = "none"
    /\ ex.script = FollowsPrompt("combined")

\* C20: in the combined pipeline the variable name the prompt tells the
\* generator to assign the final answer to is the name the executor reads
\* the result from: an artifact that assigns its answer as instructed has
\* that answer returned.
C20_ResultNameAgreement ==
    CombinedFollowsPrompt =>
        /\ PromptResultName("combined") \in DOMAIN ex.ns_end
        /\ ex.ret = ReturnRows(to_dict_records(ex.ns_end[PromptResultName("combined")]))

----------------------------------------------------------------------------
(* Claims about the session's markers and the stored configuration         *)

\* A step in which update_mysql_config or update_excel_config returned True
SuccessfulConnect ==
    \/ \E p \in MySQLInputs, env \in SchemaConnectEnvs :
          /\ ClickConnectMySQL(p, env)
          /\ update_mysql_config(current_db_config, session_state, p, env).ok
    \/ \E f \in RequestExcelInputs, env \in SchemaConnectEnvs :
          /\ ClickConnectExcel(f, env)
          /\ update_excel_config(current_db_config, session_state, f, env).ok

\* C21: every successful connect resets the session's freshness markers
\* (the last-seen Excel modification time and the last-seen row counts), so
\* that the first freshness check after a reconnect compares against no
\* marker of the source connected before.
C21_ResetOnReconnect ==
    [][SuccessfulConnect
          => /\ session_state'.last_excel_update = NoTime
             /\ session_state'.mysql_table_counts = {}]_vars

\* A connect step of one source whose validator did not answer "success"
RejectedMySQLConnect(p, env) ==
    ClickConnectMySQL(p, env) /\ ~Validated("mysql", p, env)
RejectedExcelConnect(f, env) ==
    ClickConnectExcel(f, env) /\ ~Validated("excel", [file_path |-> f], env)

\* C23: update_mysql_config and update_excel_config change the stored
\* configuration and set the connected flag only when the validator
\* reported status 'success'; on status 'error' they return (False, message)
\* and leave the configuration and the connected flag unchanged.
C23_ConnectOnlyOnSuccess ==
    [][/\ \A p \in MySQLInputs, env \in Envs :
             RejectedMySQLConnect(p, env)
                => /\ ~update_mysql_config(current_db_config, session_state, p, env).ok
                   /\ current_db_config' = current_db_config
                   /\ session_state'.db_connected = session_state.db_connected
       /\ \A f \in ExcelInputs, env \in Envs :
             RejectedExcelConnect(f, env)
                => /\ ~update_excel_config(current_db_config, session_state, f, env).ok
                   /\ current_db_config' = current_db_config
                   /\ session_state'.db_connected = session_state.db_connected]_vars


\* A cache miss whose live introspection failed
FailedMiss(c) == c.introspected /\ c.failed

\* C24: a cache miss whose live introspection fails persists no record
\* that later counts as a hit: the next get_database_schema for the same
\* source introspects the source again.
C24_NoCachePoisoning ==
    \A i \in 1..(Len(sc_calls) - 1) :
       (FailedMiss(sc_calls[i]) /\ SameSource(sc_calls[i], sc_calls[i + 1]))
          => sc_calls[i + 1].introspected


\* A call served from the record the call before it left
ServedFromPrevious(i) ==
    /\ ~sc_calls[i + 1].introspected
    /\ sc_calls[i].introspected
    /\ ~sc_calls[i].raised

\* C25: get_database_schema returns a cached description only if it was
\* computed from the currently active source: two Excel files of the same
\* file name in different directories, or same-named databases on
\* different hosts, never share a cache record.
C25_CacheIdentity ==
    \A i \in 1..(Len(sc_calls) - 1) :
       ServedFromPrevious(i) => sc_calls[i + 1].call.source = sc_calls[i].call.source


----------------------------------------------------------------------------
(* Claims about the sanitizer and the request's generated artifact *)

Contains(s, p) == \E i \in 1..(Len(s) - Len(p) + 1) : SubSeq(s, i, i + Len(p) - 1) = p

\* A text with nothing the sanitizer is meant to remove: no code fence, no
\* line starting with '#', no surrounding whitespace
PlainArtifact(text) ==
    /\ ~Contains(text, Fence)
    /\ \A i \in 1..Len(StrSplit(text, NL)) : ~IsCommentLine(StrSplit(text, NL)[i])
    /\ StrStrip(text) = text

\* C26: for every artifact text that has no code fence, no line starting
\* with '#' and no surrounding whitespace, clean_query_output returns the
\* text unchanged; '*' and backtick characters of the statement are kept.
C26_PreservesCode ==
    (PlainArtifact(cq_input) /\ cq_outputs # <<>>) => cq_outputs[1] = cq_input


\* The handler of the query button got a value back from the generator
GeneratorReturned == rq.pressed /\ rq.generated /\ rq.gen.escaped = "none"

\* The generator did not fail: the model was asked and answered with a text
GenerationSucceeded == GeneratorReturned /\ rq.asked = "text"

\* C27: in a query request the generated artifact is handed to the executor
\* if and only if the generator did not fail; a successfully generated
\* artifact is never treated as a generation error because of its content.
C27_ExecuteIffGenerated ==
    GeneratorReturned => (ex.called <=> GenerationSucceeded)


\* main_app.py line 205: the query section is shown to a connected session
CanIssueQuery == session_state.db_connected

\* C28: in every reachable session state in which a query request can be
\* issued, the source kind that chooses the prompt template (the session's
\* selected_db_type) equals the source kind that fetches the schema and
\* executes the artifact (the type tag of the active configuration).
C28_SourceKindAgreement ==
    CanIssueQuery =>
        session_state.selected_db_type
            = get_db_config(current_db_config, session_state).type


----------------------------------------------------------------------------
(* Claims about two sessions of one process *)

\* A connect button pressed in session s
ConnectBy(s) ==
    \/ \E p \in SchemaMySQLInputs, env \in SchemaConnectEnvs : SessionConnectMySQL(s, p, env)
    \/ \E f \in RequestExcelInputs, env \in SchemaConnectEnvs : SessionConnectExcel(s, f, env)
    \/ \E p \in SchemaMySQLInputs, f \in RequestExcelInputs, env \in SchemaConnectEnvs :
          SessionConnectBoth(s, p, f, env)

\* C29: with two connected user sessions in one process, a connect
\* performed by one session never changes the configuration (type tag,
\* MySQL parameters, Excel path) that get_db_config returns to the other.
C29_SessionIsolation ==
    [][\A s \in SessionIds, o \in SessionIds :
          (/\ o # s
           /\ ConnectBy(s)
           /\ sessions[o].db_connected
           /\ sessions'[s].db_connected)
             => get_db_config(current_db_config', sessions'[o])
                   = get_db_config(current_db_config, sessions[o])]_vars


----------------------------------------------------------------------------
(* Claims about calls in flight                                            *)

BothReturned == \A p \in Callers : race.pc[p] = "done"
RacingMisses == BothReturned /\ \A p \in Callers : ~race.hit[p]

\* C22: when two get_database_schema calls interleave at any point, each
\* returns the description it computed from its own source, and the record
\* persisted after both finished is exactly the record one of them wrote
\* (last write wins), its tags and its schema being of the same source.
C22_RacingMisses ==
    RacingMisses =>
        /\ \A p \in Callers : race.ret[p] = LiveSchema(race.cfg, race.src[p])
        /\ \E p \in Callers : race.file.bytes = race.wrote[p]

====
